---- MODULE Spec2Model ----
(***************************************************************************)
(* A model of the GM Vault exporter: the folder-hierarchy parser           *)
(* (SessionParser), the JSON exporter (GMVaultJSONBuilder), the Markdown   *)
(* renderer's text passes (MarkdownRenderer: wiki links, URL pass, class   *)
(* pass, _slugify) and PluginController: its commands (selectSessionPage,  *)
(* enableServer, disableServer) and its two HTTP route handlers, also      *)
(* with several requests in flight.                                        *)
(*                                                                         *)
(* Text is a sequence of one-character strings, so that the code's string  *)
(* operations (trim, replace, split, concatenation) are computed.          *)
(***************************************************************************)
EXTENDS Integers, Sequences, FiniteSets, TLC

VARIABLES
    session,            \* export: the Session tree handed to buildJSON
    baseUrl,            \* GMVaultJSONBuilder.baseUrl
    recentBase,         \* history: the argument of the latest setBaseUrl (or the constructor's)
    json,               \* export: the result of the latest buildJSON
    vault,              \* the repository: the root folder with its children
    unreadable,         \* paths whose vault.read rejects
    currentSessionFile, \* PluginController.currentSessionFile, or NULL
    parsed,             \* the outcome of the latest parseSession
    response,           \* the latest HTTP response
    parts,              \* history: the pieces the text token was written from
    content,            \* renderer: the content of a text token
    rendererBaseUrl,    \* MarkdownRenderer.baseUrl, or NoBase
    rendered,           \* renderer: the output of the text rule
    elements,           \* history: the elements the HTML was written from
    html,               \* URL pass: the HTML handed to the pass
    urlBase,            \* URL pass: the base URL handed to the pass
    converted,          \* URL pass: the output
    reconverted,        \* URL pass: the output of the pass run on its own output
    markup,             \* class pass: the HTML handed to the pass
    classed,            \* class pass: the output
    reclassed,          \* class pass: the output of the pass run on its own output
    slugSource,         \* slug: the text handed to _slugify
    slugged,            \* slug: the output
    reslugged,          \* slug: the output of _slugify run on its own output
    serverRunning,      \* ServerManager.isRunning()
    listeners,          \* listeners bound on the port
    routes,             \* registrations of the two routes with the ServerManager
    tunnelActive,       \* TunnelManager.isActive()
    tunnelUrl,          \* TunnelManager.getPublicUrl(), or NULL
    publicUrl,          \* PluginController.publicUrl, or NULL
    settings,           \* the settings saved with plugin.saveData
    notice,             \* the latest Notice shown to the user
    command,            \* history: the latest command, and whether the server ran before it
    requests,           \* the GET /gm-vault requests in flight: each one's position, entry document, tree and response
    fragments,          \* history: the pieces the document was written from
    document,           \* flat extraction: the text of the document
    extracted,          \* flat extraction: the categories emitted
    pending             \* the commands in progress: for each, its name and the await it is suspended at

vars == <<session, baseUrl, recentBase, json, vault, unreadable, currentSessionFile,
          parsed, response, parts, content, rendererBaseUrl, rendered,
          elements, html, urlBase, converted, reconverted, markup, classed, reclassed,
          slugSource, slugged, reslugged,
          serverRunning, listeners, routes, tunnelActive, tunnelUrl, publicUrl, settings, notice,
          command,
          requests,
          fragments, document, extracted,
          pending>>

exportVars == <<session, baseUrl, recentBase, json>>
repoVars   == <<vault, unreadable, currentSessionFile, parsed, response>>
wikiVars   == <<parts, content, rendererBaseUrl, rendered>>
urlVars    == <<elements, html, urlBase, converted, reconverted>>
classVars  == <<markup, classed, reclassed>>
slugVars == <<slugSource, slugged, reslugged>>
controllerVars == <<serverRunning, listeners, routes, tunnelActive, tunnelUrl, publicUrl,
                    settings, notice, command>>
requestVars == <<requests>>
flatVars == <<fragments, document, extracted>>
lifecycleVars == <<pending>>

-----------------------------------------------------------------------------
(* Bounds of the model. *)

MaxNodes == 3       \* categories in an exported Session tree
MaxPages == 2       \* pages per exported category
MaxEntries == 3     \* files and folders of the repository besides the entry document
MaxServed == 1      \* the same, for the repositories the route handlers are run on
MaxParts == 2       \* pieces (plain text, cross-reference tokens) of a text node
MaxUrlLen == 2      \* characters of an href or src value
MaxListDepth == 2   \* lists nested in the HTML of the class pass
MaxSlugLen == 3     \* characters of a text handed to _slugify
MaxRegistrations == 3   \* calls of _registerRoutes
MaxRequests == 2    \* GET /gm-vault requests in flight together
MaxFragments == 3   \* pieces of the document handed to flat extraction
MaxCommands == 3    \* commands invoked, finished or in progress
MaxLinked == 2      \* entries of the repository whose export is followed

-----------------------------------------------------------------------------
(* Text. *)

UpperChars == {"A", "B", "F", "M", "P"}
LowerChars == {"a", "b", "c", "d", "e", "f", "g", "m", "n", "o", "p", "s", "t", "x", "y", "z"}
DigitChars == {"0", "1", "2", "3"}
SpaceChars == {" "}

toLowerCaseChar(c) ==
    CASE c = "A" -> "a"
      [] c = "B" -> "b"
      [] c = "F" -> "f"
      [] c = "M" -> "m"
      [] c = "P" -> "p"
      [] c = "É" -> "é"
      [] OTHER -> c

\* String.prototype.toLowerCase
toLowerCase(text) == [i \in 1..Len(text) |-> toLowerCaseChar(text[i])]

\* \s of a JavaScript regular expression
IsSpace(c) == c \in SpaceChars

\* \w of a JavaScript regular expression
IsWord(c) == c \in UpperChars \cup LowerChars \cup DigitChars \cup {"_"}

RECURSIVE DropWhileSpace(_)
DropWhileSpace(text) ==
    IF text # <<>> /\ IsSpace(Head(text)) THEN DropWhileSpace(Tail(text)) ELSE text

RECURSIVE DropEndSpace(_)
DropEndSpace(text) ==
    IF text # <<>> /\ IsSpace(text[Len(text)])
    THEN DropEndSpace(SubSeq(text, 1, Len(text) - 1))
    ELSE text

\* String.prototype.trim
trim(text) == DropEndSpace(DropWhileSpace(text))

Minimum(S) == CHOOSE x \in S : \A y \in S : x <= y

RECURSIVE Flatten(_)
Flatten(texts) == IF texts = <<>> THEN <<>> ELSE Head(texts) \o Flatten(Tail(texts))

\* text.startsWith(prefix)
startsWith(text, prefix) ==
    Len(text) >= Len(prefix) /\ SubSeq(text, 1, Len(prefix)) = prefix

\* text.slice(n) for 0 <= n
DropChars(text, n) == SubSeq(text, n + 1, Len(text))

\* .replace(/[^\w\s-]/g, '')
RECURSIVE StripNonSlugChars(_)
StripNonSlugChars(text) ==
    IF text = <<>> THEN <<>>
    ELSE IF IsWord(Head(text)) \/ IsSpace(Head(text)) \/ Head(text) = "-"
         THEN <<Head(text)>> \o StripNonSlugChars(Tail(text))
         ELSE StripNonSlugChars(Tail(text))

IsSeparator(c) == IsSpace(c) \/ c = "_" \/ c = "-"

RECURSIVE DropWhileSeparator(_)
DropWhileSeparator(text) ==
    IF text # <<>> /\ IsSeparator(Head(text)) THEN DropWhileSeparator(Tail(text)) ELSE text

\* .replace(/[\s_-]+/g, '-')
RECURSIVE CollapseSeparators(_)
CollapseSeparators(text) ==
    IF text = <<>> THEN <<>>
    ELSE IF IsSeparator(Head(text))
         THEN <<"-">> \o CollapseSeparators(DropWhileSeparator(text))
         ELSE <<Head(text)>> \o CollapseSeparators(Tail(text))

RECURSIVE DropWhileHyphen(_)
DropWhileHyphen(text) ==
    IF text # <<>> /\ Head(text) = "-" THEN DropWhileHyphen(Tail(text)) ELSE text

RECURSIVE DropEndHyphen(_)
DropEndHyphen(text) ==
    IF text # <<>> /\ text[Len(text)] = "-"
    THEN DropEndHyphen(SubSeq(text, 1, Len(text) - 1))
    ELSE text

TrimHyphens_kept(text) == text

\* .replace(/^-+|-+$/g, '')
TrimHyphens(text) == DropEndHyphen(DropWhileHyphen(text))

_slugify_hyphensTrimmedFirst(text) ==
    CollapseSeparators(TrimHyphens(StripNonSlugChars(trim(toLowerCase(text)))))

\* MarkdownRenderer._slugify
_slugify(text) ==
    TrimHyphens(CollapseSeparators(StripNonSlugChars(trim(toLowerCase(text)))))

\* utils/slugify.js, which the parser and the controller import
slugify(text) == _slugify(text)

escapeChar(c) ==
    CASE c = "&" -> <<"&", "a", "m", "p", ";">>
      [] c = "<" -> <<"&", "l", "t", ";">>
      [] c = ">" -> <<"&", "g", "t", ";">>
      [] c = "\"" -> <<"&", "q", "u", "o", "t", ";">>
      [] c = "'" -> <<"&", "#", "0", "3", "9", ";">>
      [] OTHER -> <<c>>

\* MarkdownRenderer._escapeHtml
_escapeHtml(text) == Flatten([i \in 1..Len(text) |-> escapeChar(text[i])])

-----------------------------------------------------------------------------
(* The JSON exporter, GMVaultJSONBuilder. *)

PagesPath == <<"/", "p", "a", "g", "e", "s", "/">>

\* 'http://localhost:3000', the constructor's default and the controller's local address
LocalUrl ==
    <<"h", "t", "t", "p", ":", "/", "/", "l", "o", "c", "a", "l", "h", "o", "s", "t",
      ":", "3", "0", "0", "0">>

\* a public tunnel address
TunnelUrl == <<"h", "t", "t", "p", "s", ":", "/", "/", "t", ".", "i", "o">>

BaseUrls == {LocalUrl, TunnelUrl}

\* a delete that leaves the key in place
DeleteKey_kept(obj, key) == obj

\* delete json[key]
DeleteKey(obj, key) == [k \in DOMAIN obj \ {key} |-> obj[k]]

\* a page exporter that keeps the URL of the builder's construction
_buildPageJSON_constructionBase(page, base) ==
    LET obj == [name |-> page.name, url |-> LocalUrl \o PagesPath \o page.slug]
    IN  IF Len(page.blockTypes) > 0
        THEN ("blockTypes" :> page.blockTypes) @@ obj
        ELSE obj

\* GMVaultJSONBuilder._buildPageJSON with this.baseUrl = base
_buildPageJSON(page, base) ==
    LET obj == [name |-> page.name, url |-> base \o PagesPath \o page.slug]
    IN  IF Len(page.blockTypes) > 0
        THEN ("blockTypes" :> page.blockTypes) @@ obj
        ELSE obj

RECURSIVE _buildCategoryJSON(_, _)

RECURSIVE SelectWithChildren(_)
SelectWithChildren(categories) ==
    IF categories = <<>> THEN <<>>
    ELSE (IF Len(Head(categories).pages) = 0 /\ Len(Head(categories).categories) = 0
          THEN <<>> ELSE <<Head(categories)>>)
             \o SelectWithChildren(Tail(categories))

_buildCategoryJSON_childlessDropped(category, base) ==
    LET kept == SelectWithChildren(category.categories)
        obj ==
            [name |-> category.name,
             pages |-> [i \in 1..Len(category.pages) |->
                            _buildPageJSON(category.pages[i], base)],
             categories |-> [i \in 1..Len(kept) |-> _buildCategoryJSON(kept[i], base)]]
        noPages == IF Len(obj.pages) = 0 THEN DeleteKey(obj, "pages") ELSE obj
    IN  IF Len(obj.categories) = 0 THEN DeleteKey(noPages, "categories") ELSE noPages

\* GMVaultJSONBuilder._buildCategoryJSON with this.baseUrl = base
_buildCategoryJSON(category, base) ==
    LET obj ==
            [name |-> category.name,
             pages |-> [i \in 1..Len(category.pages) |->
                            _buildPageJSON(category.pages[i], base)],
             categories |-> [i \in 1..Len(category.categories) |->
                                 _buildCategoryJSON(category.categories[i], base)]]
        noPages == IF Len(obj.pages) = 0 THEN DeleteKey(obj, "pages") ELSE obj
    IN  IF Len(obj.categories) = 0 THEN DeleteKey(noPages, "categories") ELSE noPages

\* GMVaultJSONBuilder.buildJSON with this.baseUrl = base
buildJSON(s, base) ==
    [categories |-> [i \in 1..Len(s.categories) |-> _buildCategoryJSON(s.categories[i], base)]]

-----------------------------------------------------------------------------
(* Session trees handed to the exporter: every forest of at most MaxNodes  *)
(* categories, each with at most MaxPages pages.                           *)

Digit(i) == <<"0", "1", "2", "3", "4", "5", "6", "7", "8", "9">>[(i % 10) + 1]

\* Page(name, slug, blockTypes): every second page carries a block type
PoolPage(i) ==
    [name |-> <<"P", Digit(i)>>,
     slug |-> <<"p", Digit(i)>>,
     blockTypes |-> IF i % 2 = 0 THEN <<"table">> ELSE <<>>]

PageLists == {[i \in 1..k |-> PoolPage(i)] : k \in 0..MaxPages}

RECURSIVE ForestsOf(_)
ForestsOf(n) ==
    IF n = 0 THEN {<<>>}
    ELSE UNION {
           { <<[name |-> <<"C", Digit(k)>>, pages |-> ps, categories |-> sub]>> \o rest :
               ps \in PageLists, sub \in ForestsOf(k - 1), rest \in ForestsOf(n - k) }
           : k \in 1..n }

Sessions ==
    UNION { { [name |-> <<"S">>, categories |-> f] : f \in ForestsOf(n) } : n \in 0..MaxNodes }

NoJson == [built |-> FALSE]

InitExport ==
    /\ session \in Sessions
    /\ baseUrl = LocalUrl
    /\ recentBase = LocalUrl
    /\ json = NoJson

\* GMVaultJSONBuilder.setBaseUrl
setBaseUrl(u) ==
    /\ baseUrl' = u
    /\ recentBase' = u
    /\ UNCHANGED <<session, json>>

\* a call of buildJSON(session); "base" records the base URL most recently set
ExportSession ==
    /\ json' = [built |-> TRUE, value |-> buildJSON(session, baseUrl), base |-> recentBase]
    /\ UNCHANGED <<session, baseUrl, recentBase>>

-----------------------------------------------------------------------------
(* The repository (Obsidian's vault) as the parser sees it.  A folder has  *)
(* "children"; a file has none, and has "basename", "extension", "parent"  *)
(* (the path of its folder) and its text.                                  *)

Dot == <<".">>
Slash == <<"/">>
NewLine == "\n"

Md == <<"m", "d">>
Png == <<"p", "n", "g">>

\* TFile
File(dir, base, ext, text) ==
    [name |-> base \o Dot \o ext,
     basename |-> base,
     extension |-> ext,
     path |-> (IF dir = Slash THEN <<>> ELSE dir \o Slash) \o base \o Dot \o ext,
     parent |-> dir,
     hasParent |-> TRUE,
     text |-> text]

\* TFolder
Folder(dir, name, children) ==
    [name |-> name,
     path |-> (IF dir = Slash THEN <<>> ELSE dir \o Slash) \o name,
     children |-> children]

\* child.children !== undefined
IsFolder(child) == "children" \in DOMAIN child

\* app.vault.read(file): the text, or a rejection
read(file) ==
    IF file.path \in unreadable THEN [threw |-> TRUE] ELSE [threw |-> FALSE, value |-> file.text]

\* content.split('\n')
RECURSIVE SplitFrom(_, _)
SplitFrom(text, line) ==
    IF text = <<>> THEN <<line>>
    ELSE IF Head(text) = NewLine
         THEN <<line>> \o SplitFrom(Tail(text), <<>>)
         ELSE SplitFrom(Tail(text), Append(line, Head(text)))

split(text) == SplitFrom(text, <<>>)

\* line.match(/^#\s+(.+)$/): whether it matches, and the captured title.  \s+ is
\* greedy and gives back one character when nothing else is left for (.+).
h1Match(line) ==
    IF Len(line) >= 3 /\ line[1] = "#" /\ IsSpace(line[2])
    THEN LET rest == DropWhileSpace(Tail(line))
         IN  [matched |-> TRUE,
              title |-> IF rest = <<>> THEN <<line[Len(line)]>> ELSE rest]
    ELSE [matched |-> FALSE]

\* the first line that matches the H1 pattern
RECURSIVE FirstH1(_)
FirstH1(lines) ==
    IF lines = <<>> THEN [matched |-> FALSE]
    ELSE IF h1Match(Head(lines)).matched THEN h1Match(Head(lines))
         ELSE FirstH1(Tail(lines))

\* the index of the first character of text, from index i, that is in stops; or 0
IndexOfAny(text, i, stops) ==
    LET hits == { k \in i..Len(text) : text[k] \in stops }
    IN  IF hits = {} THEN 0 ELSE Minimum(hits)

\* a match of /\[\[([^\]|]+)(\|[^\]]+)?\]\]/ starting at index i: its end and $1
PlainWikiMatchAt(text, i) ==
    LET j == IndexOfAny(text, i + 2, {"]", "|"})
        m == IF j = 0 THEN 0 ELSE IndexOfAny(text, j + 1, {"]"})
    IN  IF ~(i + 1 <= Len(text) /\ text[i] = "[" /\ text[i + 1] = "[") \/ j <= i + 2
        THEN [matched |-> FALSE]
        ELSE IF text[j] = "]"
             THEN IF j + 1 <= Len(text) /\ text[j + 1] = "]"
                  THEN [matched |-> TRUE, end |-> j + 1, target |-> SubSeq(text, i + 2, j - 1)]
                  ELSE [matched |-> FALSE]
             ELSE IF m > j + 1 /\ m + 1 <= Len(text) /\ text[m + 1] = "]"
                  THEN [matched |-> TRUE, end |-> m + 1, target |-> SubSeq(text, i + 2, j - 1)]
                  ELSE [matched |-> FALSE]

\* name.replace(/\[\[([^\]|]+)(\|[^\]]+)?\]\]/g, '$1')
RECURSIVE StripWikiFrom(_, _)
StripWikiFrom(text, i) ==
    IF i > Len(text) THEN <<>>
    ELSE LET m == PlainWikiMatchAt(text, i)
         IN  IF m.matched
             THEN m.target \o StripWikiFrom(text, m.end + 1)
             ELSE <<text[i]>> \o StripWikiFrom(text, i + 1)

\* SessionParser._getRootCategoryName: the read is not guarded
_getRootCategoryName(sessionFile) ==
    LET r == read(sessionFile)
    IN  IF r.threw THEN [threw |-> TRUE]
        ELSE LET h == FirstH1(split(r.value))
             IN  [threw |-> FALSE,
                  value |-> IF h.matched THEN trim(h.title) ELSE sessionFile.basename]

\* SessionParser._getPageName: a failed read is caught
_getPageName(file) ==
    LET r == read(file)
        h == IF r.threw THEN [matched |-> FALSE] ELSE FirstH1(split(r.value))
    IN  IF h.matched THEN StripWikiFrom(trim(h.title), 1) ELSE file.basename

\* the collation order of a.localeCompare(b): punctuation, digits, letters;
\* letters alphabetically whatever their case, lower case first on a tie
CollationOrder ==
    <<" ", "_", "-", "!", ".", "0", "1", "2", "3",
      "a", "b", "c", "d", "e", "f", "m", "n", "o", "p", "s", "t", "x", "z">>

CollationRank(c) ==
    CHOOSE i \in 1..Len(CollationOrder) : CollationOrder[i] = toLowerCaseChar(c)

\* the comparison of two key sequences of integers: -1, 0, 1
RECURSIVE CompareKeys(_, _)
CompareKeys(a, b) ==
    IF a = <<>> /\ b = <<>> THEN 0
    ELSE IF a = <<>> THEN -1
    ELSE IF b = <<>> THEN 1
    ELSE IF Head(a) < Head(b) THEN -1
    ELSE IF Head(a) > Head(b) THEN 1
    ELSE CompareKeys(Tail(a), Tail(b))

localeCompare(a, b) ==
    LET primary == CompareKeys([i \in 1..Len(a) |-> CollationRank(a[i])],
                               [i \in 1..Len(b) |-> CollationRank(b[i])])
    IN  IF primary # 0 THEN primary
        ELSE CompareKeys([i \in 1..Len(a) |-> IF a[i] \in UpperChars THEN 1 ELSE 0],
                         [i \in 1..Len(b) |-> IF b[i] \in UpperChars THEN 1 ELSE 0])

\* the insertion of x into a list sorted by name, after its equals (a stable sort)
RECURSIVE InsertByName(_, _)
InsertByName(x, sorted) ==
    IF sorted = <<>> THEN <<x>>
    ELSE IF localeCompare(x.name, Head(sorted).name) < 0 THEN <<x>> \o sorted
         ELSE <<Head(sorted)>> \o InsertByName(x, Tail(sorted))

\* a listing left in the repository's order
sortByName_asListed(items) == items

\* items.sort((a, b) => a.name.localeCompare(b.name))
RECURSIVE sortByName(_)
sortByName(items) ==
    IF items = <<>> THEN <<>>
    ELSE InsertByName(items[Len(items)], sortByName(SubSeq(items, 1, Len(items) - 1)))

\* a selection that leaves out the folders without children
RECURSIVE SelectFolders_nonEmpty(_)
SelectFolders_nonEmpty(children) ==
    IF children = <<>> THEN <<>>
    ELSE IF IsFolder(Head(children)) /\ Head(children).children # <<>>
         THEN <<Head(children)>> \o SelectFolders_nonEmpty(Tail(children))
         ELSE SelectFolders_nonEmpty(Tail(children))

\* SelectSeq with an operator of the module
RECURSIVE SelectFolders(_)
SelectFolders(children) ==
    IF children = <<>> THEN <<>>
    ELSE IF IsFolder(Head(children))
         THEN <<Head(children)>> \o SelectFolders(Tail(children))
         ELSE SelectFolders(Tail(children))

RECURSIVE SelectMarkdown(_)
SelectMarkdown(children) ==
    IF children = <<>> THEN <<>>
    ELSE IF ~IsFolder(Head(children)) /\ Head(children).extension = Md
         THEN <<Head(children)>> \o SelectMarkdown(Tail(children))
         ELSE SelectMarkdown(Tail(children))

\* new Page(pageName, slug, []); "source" records the file it was made from
PageOf(file) ==
    [name |-> _getPageName(file),
     slug |-> slugify(file.basename),
     blockTypes |-> <<>>,
     source |-> file.path]

\* a loop over the files that does not skip the entry document
RECURSIVE PagesOfFiles_entryKept(_, _)
PagesOfFiles_entryKept(files, sessionFile) ==
    IF files = <<>> THEN <<>>
    ELSE <<PageOf(Head(files))>> \o PagesOfFiles_entryKept(Tail(files), sessionFile)

\* the loop over the sorted files of SessionParser._scanFolder
RECURSIVE PagesOfFiles(_, _)
PagesOfFiles(files, sessionFile) ==
    IF files = <<>> THEN <<>>
    ELSE IF Head(files).path = sessionFile.path
         THEN PagesOfFiles(Tail(files), sessionFile)
         ELSE <<PageOf(Head(files))>> \o PagesOfFiles(Tail(files), sessionFile)

\* SessionParser._scanFolder: what it adds to the category it is given;
\* "reads" records the files read, in the order of the reads
RECURSIVE _scanFolder(_, _)
_scanFolder(folder, sessionFile) ==
    LET files == sortByName(SelectMarkdown(folder.children))
        folders == sortByName(SelectFolders(folder.children))
        pages == PagesOfFiles(files, sessionFile)
        subs == [i \in 1..Len(folders) |-> _scanFolder(folders[i], sessionFile)]
    IN  [pages |-> pages,
         categories |-> [i \in 1..Len(folders) |->
                             [name |-> folders[i].name,
                              pages |-> subs[i].pages,
                              categories |-> subs[i].categories]],
         reads |-> [i \in 1..Len(pages) |-> pages[i].source]
                   \o Flatten([i \in 1..Len(folders) |-> subs[i].reads])]

\* the folder of the repository with the given path
RECURSIVE FoldersBelow(_)
FoldersBelow(folder) ==
    {folder} \cup UNION { FoldersBelow(folder.children[i]) :
                            i \in { k \in 1..Len(folder.children) : IsFolder(folder.children[k]) } }

FolderAt(path) == CHOOSE f \in FoldersBelow(vault) : f.path = path

\* SessionParser.parseSession: the Session, or the exception that escapes it
parseSession(sessionFile) ==
    IF ~sessionFile.hasParent
    THEN [threw |-> FALSE, reads |-> <<>>,
          session |-> [name |-> sessionFile.basename, categories |-> <<>>]]
    ELSE LET rootName == _getRootCategoryName(sessionFile)
             scan == _scanFolder(FolderAt(sessionFile.parent), sessionFile)
         IN  IF rootName.threw
             THEN [threw |-> TRUE, reads |-> <<sessionFile.path>>]
             ELSE [threw |-> FALSE,
                   reads |-> <<sessionFile.path>> \o scan.reads,
                   session |-> [name |-> sessionFile.basename,
                                categories |-> <<[name |-> rootName.value,
                                                  pages |-> scan.pages,
                                                  categories |-> scan.categories]>>]]

-----------------------------------------------------------------------------
(* Values of the variables a specification does not use. *)

NULL == [null |-> TRUE]
NotParsed == [done |-> FALSE]
NoResponse == [sent |-> FALSE]
NoBase == <<>>

IdleExport ==
    /\ session = [name |-> <<>>, categories |-> <<>>]
    /\ baseUrl = LocalUrl
    /\ recentBase = LocalUrl
    /\ json = NoJson

IdleRepo ==
    /\ vault = [isFolder |-> TRUE, name |-> <<>>, path |-> <<"/">>, children |-> <<>>]
    /\ unreadable = {}
    /\ currentSessionFile = NULL
    /\ parsed = NotParsed
    /\ response = NoResponse

IdleWiki ==
    /\ parts = <<>>
    /\ content = <<>>
    /\ rendererBaseUrl = NoBase
    /\ rendered = [done |-> FALSE]

IdleUrl ==
    /\ elements = <<>>
    /\ html = <<>>
    /\ urlBase = LocalUrl
    /\ converted = [done |-> FALSE]
    /\ reconverted = [done |-> FALSE]

IdleClass ==
    /\ markup = <<>>
    /\ classed = [done |-> FALSE]
    /\ reclassed = [done |-> FALSE]

IdleSlug ==
    /\ slugSource = <<>>
    /\ slugged = [done |-> FALSE]
    /\ reslugged = [done |-> FALSE]

IdleController ==
    /\ serverRunning = FALSE
    /\ listeners = 0
    /\ routes = 0
    /\ tunnelActive = FALSE
    /\ tunnelUrl = NULL
    /\ publicUrl = NULL
    /\ settings = [saved |-> FALSE]
    /\ notice = "none"
    /\ command = [name |-> "none"]

IdleRequests ==
    /\ requests = <<>>

IdleFlat ==
    /\ fragments = <<>>
    /\ document = <<>>
    /\ extracted = [done |-> FALSE]

IdleLifecycle ==
    /\ pending = <<>>

-----------------------------------------------------------------------------
(* The repositories the parser is run on: a session folder "s" that holds  *)
(* the entry document e.md and, in any listing order, some of a.md, B.md,  *)
(* c.png, an empty folder M and a folder n; n holds, in any listing order, *)
(* some of b.md, "A b.md", a second e.md and a folder d with a third e.md. *)
(* MaxEntries bounds the entries of s and n besides the entry document.    *)

RECURSIVE Perms(_)
Perms(S) ==
    IF S = {} THEN {<<>>}
    ELSE UNION { { <<x>> \o p : p \in Perms(S \ {x}) } : x \in S }

SessionDir == <<"s">>
SubDir == <<"s", "/", "n">>
DeepDir == <<"s", "/", "n", "/", "d">>

TitledText == <<"#", " ", "T", NewLine, "x">>
LinkTitledText == <<"x", NewLine, "#", " ", " ", "[", "[", "t", "|", "D", "]", "]", " ">>
UntitledText == <<"#", "x", NewLine, "x">>

EntryTexts == {TitledText, UntitledText}

EntryFile(text) == File(SessionDir, <<"e">>, Md, text)

SubKinds == {"b", "A", "e", "d"}

SubChild(kind) ==
    CASE kind = "b" -> File(SubDir, <<"b">>, Md, LinkTitledText)
      [] kind = "A" -> File(SubDir, <<"A", " ", "b">>, Md, UntitledText)
      [] kind = "e" -> File(SubDir, <<"e">>, Md, TitledText)
      [] kind = "d" -> Folder(SubDir, <<"d">>, <<File(DeepDir, <<"e">>, Md, UntitledText)>>)

SessionKinds == {"a", "B", "c", "M", "n"}

SessionChild(kind, entryText, subOrder) ==
    CASE kind = "e" -> EntryFile(entryText)
      [] kind = "a" -> File(SessionDir, <<"a">>, Md, TitledText)
      [] kind = "B" -> File(SessionDir, <<"B">>, Md, UntitledText)
      [] kind = "c" -> File(SessionDir, <<"c">>, Png, <<>>)
      [] kind = "M" -> Folder(SessionDir, <<"M">>, <<>>)
      [] kind = "n" -> Folder(SessionDir, <<"n">>,
                              [i \in 1..Len(subOrder) |-> SubChild(subOrder[i])])

Listings(kinds, most) ==
    UNION { Perms(X) : X \in { Y \in SUBSET kinds : Cardinality(Y) <= most } }

VaultOf(order, entryText, subOrder) ==
    [name |-> <<>>,
     path |-> Slash,
     children |-> <<Folder(Slash, SessionDir,
                           [i \in 1..Len(order) |->
                                SessionChild(order[i], entryText, subOrder)])>>]

Vaults(most) ==
    UNION { UNION { { VaultOf(order, entryText, subOrder) :
                        entryText \in EntryTexts,
                        subOrder \in IF "n" \in X
                                     THEN Listings(SubKinds, most - Cardinality(X))
                                     ELSE {<<>>} }
                    : order \in Perms(X \cup {"e"}) }
            : X \in { Y \in SUBSET SessionKinds : Cardinality(Y) <= most } }

\* app.vault.getMarkdownFiles(): the markdown files at every depth, in listing order
RECURSIVE getMarkdownFiles(_)
getMarkdownFiles(folder) ==
    Flatten([i \in 1..Len(folder.children) |->
                IF IsFolder(folder.children[i]) THEN getMarkdownFiles(folder.children[i])
                ELSE IF folder.children[i].extension = Md THEN <<folder.children[i]>>
                ELSE <<>>])

Range(seq) == { seq[i] : i \in 1..Len(seq) }

\* a TFile that is in no folder
Detached(file) == [file EXCEPT !.hasParent = FALSE]

\* the entry documents tried: the one of the session folder, its namesake of
\* folder n, and a file without a parent folder
EntryChoices(v) ==
    LET files == Range(getMarkdownFiles(v))
    IN  { f \in files : f.basename = <<"e">> /\ f.parent # DeepDir }
        \cup { Detached(f) : f \in { g \in files : g.path = EntryFile(<<>>).path } }

InitParse ==
    /\ vault \in Vaults(MaxEntries)
    /\ unreadable \in {{}} \cup { {f.path} : f \in Range(getMarkdownFiles(vault)) }
    /\ currentSessionFile \in EntryChoices(vault)
    /\ parsed = NotParsed
    /\ response = NoResponse

\* a call of parseSession(currentSessionFile)
ParseEntry ==
    /\ parsed' = [done |-> TRUE, result |-> parseSession(currentSessionFile)]
    /\ UNCHANGED <<vault, unreadable, currentSessionFile, response>>

-----------------------------------------------------------------------------
(* The route handlers PluginController._registerRoutes registers.  A       *)
(* response records the request it answers and the exception raised while  *)
(* it was handled ("raised"); a handler that lets an exception escape       *)
(* leaves the request without a response (sent = FALSE).                   *)

\* ServerManager.sendJSON(res, body, status = 200)
sendJSON(body, status) ==
    [sent |-> TRUE, status |-> status, type |-> "application/json", body |-> body]

\* ServerManager.sendHTML(res, body, status = 200)
sendHTML(body) ==
    [sent |-> TRUE, status |-> 200, type |-> "text/html", body |-> body]

\* MarkdownRenderer.renderPage(markdown, title) of a renderer without a base
\* URL: the page shell around the external engine's rendering of the text
renderPage(markdown, title) ==
    [doctype |-> "html", title |-> _escapeHtml(title), content |-> markdown]

\* the first file the predicate of _findFileBySlug accepts
RECURSIVE FirstFileBySlug(_, _)
FirstFileBySlug(files, slug) ==
    IF files = <<>> THEN [found |-> FALSE]
    ELSE IF slugify(Head(files).basename) = slug \/ toLowerCase(Head(files).basename) = slug
         THEN [found |-> TRUE, file |-> Head(files)]
         ELSE FirstFileBySlug(Tail(files), slug)

\* PluginController._findFileBySlug
_findFileBySlug(slug) == FirstFileBySlug(getMarkdownFiles(vault), slug)

GmVaultRequest == [route |-> "gm-vault"]
PageRequest(slug) == [route |-> "pages", slug |-> slug]

\* what a handler did: the response, and the parser's and the exporter's runs
Outcome(request, raised, resp, parse, export) ==
    [response |-> [request |-> request, raised |-> raised] @@ resp,
     parsed |-> parse,
     json |-> export]

\* a GET /gm-vault handler without the check of the entry document: the parser
\* is entered and fails on the missing reference
gmVaultRoute_unchecked ==
    LET r == IF currentSessionFile = NULL
             THEN [threw |-> TRUE, reads |-> <<>>]
             ELSE parseSession(currentSessionFile)
    IN  IF r.threw
        THEN Outcome(GmVaultRequest, "read",
                     sendJSON([error |-> "Error al generar JSON"], 500),
                     [done |-> TRUE, result |-> r], NoJson)
        ELSE Outcome(GmVaultRequest, "none",
                     sendJSON(buildJSON(r.session, baseUrl), 200),
                     [done |-> TRUE, result |-> r],
                     [built |-> TRUE, value |-> buildJSON(r.session, baseUrl),
                      base |-> recentBase])

\* the handler of GET /gm-vault
gmVaultRoute ==
    IF currentSessionFile = NULL
    THEN Outcome(GmVaultRequest, "none",
                 sendJSON([error |-> "No hay pagina de sesion seleccionada"], 400),
                 NotParsed, NoJson)
    ELSE LET r == parseSession(currentSessionFile)
         IN  IF r.threw
             THEN Outcome(GmVaultRequest, "read",
                          sendJSON([error |-> "Error al generar JSON"], 500),
                          [done |-> TRUE, result |-> r], NoJson)
             ELSE Outcome(GmVaultRequest, "none",
                          sendJSON(buildJSON(r.session, baseUrl), 200),
                          [done |-> TRUE, result |-> r],
                          [built |-> TRUE, value |-> buildJSON(r.session, baseUrl),
                           base |-> recentBase])

\* a GET /pages/:slug handler without the try/catch
pagesRoute_uncaught(slug, renderThrows) ==
    LET hit == _findFileBySlug(slug)
    IN  IF ~hit.found
        THEN Outcome(PageRequest(slug), "none",
                     sendJSON([error |-> "Pagina no encontrada"], 404),
                     NotParsed, NoJson)
        ELSE IF read(hit.file).threw
        THEN Outcome(PageRequest(slug), "read", [sent |-> FALSE], NotParsed, NoJson)
        ELSE IF renderThrows
        THEN Outcome(PageRequest(slug), "render", [sent |-> FALSE], NotParsed, NoJson)
        ELSE Outcome(PageRequest(slug), "none",
                     [source |-> hit.file.path]
                         @@ sendHTML(renderPage(read(hit.file).value, hit.file.basename)),
                     NotParsed, NoJson)

\* the handler of GET /pages/:slug; renderThrows: the renderer raises
pagesRoute(slug, renderThrows) ==
    LET hit == _findFileBySlug(slug)
    IN  IF ~hit.found
        THEN Outcome(PageRequest(slug), "none",
                     sendJSON([error |-> "Pagina no encontrada"], 404),
                     NotParsed, NoJson)
        ELSE IF read(hit.file).threw
        THEN Outcome(PageRequest(slug), "read",
                     sendJSON([error |-> "Error al renderizar pagina"], 500),
                     NotParsed, NoJson)
        ELSE IF renderThrows
        THEN Outcome(PageRequest(slug), "render",
                     sendJSON([error |-> "Error al renderizar pagina"], 500),
                     NotParsed, NoJson)
        ELSE Outcome(PageRequest(slug), "none",
                     [source |-> hit.file.path]
                         @@ sendHTML(renderPage(read(hit.file).value, hit.file.basename)),
                     NotParsed, NoJson)

\* the slugs requested: of documents, of none, in either case
RequestSlugs ==
    { <<"e">>, <<"b">>, <<"B">>, <<"a", "-", "b">>, <<"a", " ", "b">>, <<"A", " ", "b">>,
      <<"z", "z">> }

InitRoutes ==
    /\ vault \in Vaults(MaxServed)
    /\ unreadable \in {{}} \cup { {f.path} : f \in Range(getMarkdownFiles(vault)) }
    /\ currentSessionFile \in {NULL} \cup EntryChoices(vault)
    /\ parsed = NotParsed
    /\ response = NoResponse
    /\ session = [name |-> <<>>, categories |-> <<>>]
    /\ baseUrl = LocalUrl
    /\ recentBase = LocalUrl
    /\ json = NoJson

\* a GET /gm-vault request, handled
GetGmVault ==
    /\ LET outcome == gmVaultRoute
       IN  /\ response' = outcome.response
           /\ parsed' = outcome.parsed
           /\ json' = outcome.json
    /\ UNCHANGED <<vault, unreadable, currentSessionFile, session, baseUrl, recentBase>>
    /\ UNCHANGED controllerVars

\* a GET /pages/:slug handler that keeps the document it served as the
\* selected one
GetPage_selecting(slug, renderThrows) ==
    /\ LET outcome == pagesRoute(slug, renderThrows)
       IN  /\ response' = outcome.response
           /\ parsed' = outcome.parsed
           /\ json' = outcome.json
           /\ currentSessionFile' = IF _findFileBySlug(slug).found
                                    THEN _findFileBySlug(slug).file
                                    ELSE currentSessionFile
    /\ UNCHANGED <<vault, unreadable, session, baseUrl, recentBase>>
    /\ UNCHANGED controllerVars

\* a GET /pages/:slug request, handled
GetPage(slug, renderThrows) ==
    /\ LET outcome == pagesRoute(slug, renderThrows)
       IN  /\ response' = outcome.response
           /\ parsed' = outcome.parsed
           /\ json' = outcome.json
    /\ UNCHANGED <<vault, unreadable, currentSessionFile, session, baseUrl, recentBase>>
    /\ UNCHANGED controllerVars

-----------------------------------------------------------------------------
(* The export followed: GET /gm-vault, then GET /pages/:slug for the slug  *)
(* of a page of the response.                                              *)

\* a session folder with the entry document and the given files
VaultWith(files) ==
    [name |-> <<>>,
     path |-> Slash,
     children |-> <<Folder(Slash, SessionDir, <<EntryFile(TitledText)>> \o files)>>]

\* repositories of up to MaxLinked entries, and two more: one with two base
\* names of the same slug, one with a base name whose slug is empty
LinkedVaults ==
    Vaults(MaxLinked)
        \cup { VaultWith(<<File(SessionDir, <<"A", " ", "b">>, Md, TitledText),
                           File(SessionDir, <<"a", "-", "b">>, Md, UntitledText)>>),
               VaultWith(<<File(SessionDir, <<"!">>, Md, TitledText)>>) }

InitLinked ==
    /\ vault \in LinkedVaults
    /\ unreadable = {}
    /\ currentSessionFile \in EntryChoices(vault)
    /\ parsed = NotParsed
    /\ response = NoResponse
    /\ session = [name |-> <<>>, categories |-> <<>>]
    /\ baseUrl = LocalUrl
    /\ recentBase = LocalUrl
    /\ json = NoJson

\* the documents the pages of an export are derived from: the markdown files
\* below the entry document's folder, the entry document excepted
PageDocuments ==
    IF currentSessionFile = NULL \/ ~currentSessionFile.hasParent THEN {}
    ELSE { f \in Range(getMarkdownFiles(FolderAt(currentSessionFile.parent))) :
             f.path # currentSessionFile.path }

\* the export was answered and the url of the page of document f is requested
FollowPage(f) ==
    /\ response # NoResponse
    /\ response.request = GmVaultRequest
    /\ response.status = 200
    /\ GetPage(slugify(f.basename), FALSE)

-----------------------------------------------------------------------------
(* The commands of PluginController.  ServerManager and TunnelManager are  *)
(* modelled by their contracts: start() of a running server changes        *)
(* nothing or rejects, start() of a stopped one binds the port or rejects, *)
(* stop() is idempotent; the tunnel's start() resolves with the public URL *)
(* or rejects.                                                             *)

Port == 3000

NoSettings == [saved |-> FALSE]

StartOutcomes == {"ok", "reject"}

ServerManager_start_rebinding(running, bound, outcome) ==
    IF outcome = "reject" THEN [threw |-> TRUE, running |-> running, listeners |-> bound]
    ELSE [threw |-> FALSE, running |-> TRUE, listeners |-> bound + 1]

\* ServerManager.start(): outcome "reject" is a failure to bind the port, or
\* the rejection of a start while running
ServerManager_start(running, bound, outcome) ==
    IF outcome = "reject" THEN [threw |-> TRUE, running |-> running, listeners |-> bound]
    ELSE IF running THEN [threw |-> FALSE, running |-> TRUE, listeners |-> bound]
    ELSE [threw |-> FALSE, running |-> TRUE, listeners |-> bound + 1]

\* ServerManager.stop()
ServerManager_stop(running, bound) ==
    IF running THEN [running |-> FALSE, listeners |-> bound - 1]
    ELSE [running |-> FALSE, listeners |-> bound]

\* TunnelManager.start(): the public URL, or a rejection
TunnelOutcomes == {[threw |-> TRUE], [threw |-> FALSE, url |-> TunnelUrl]}

\* PluginController._saveSettings with the values the fields will have
_saveSettings(file, running, tunnel, public) ==
    [saved |-> TRUE,
     port |-> Port,
     sessionFilePath |-> IF file # NULL THEN file.path ELSE NULL,
     serverEnabled |-> running,
     publicUrl |-> IF tunnel # NULL THEN tunnel ELSE public]

\* the repositories the commands are run on
ControllerVaults ==
    { VaultOf(<<"e", "a">>, TitledText, <<>>), VaultOf(<<"B", "e">>, UntitledText, <<>>) }

\* the slugs requested of a running server
ControllerSlugs == { <<"a">>, <<"z", "z">> }

InitController ==
    /\ vault \in ControllerVaults
    /\ unreadable = {}
    /\ currentSessionFile = NULL
    /\ parsed = NotParsed
    /\ response = NoResponse
    /\ session = [name |-> <<>>, categories |-> <<>>]
    /\ baseUrl = LocalUrl
    /\ recentBase = LocalUrl
    /\ json = NoJson
    /\ serverRunning = FALSE
    /\ listeners = 0
    /\ routes = 0
    /\ tunnelActive = FALSE
    /\ tunnelUrl = NULL
    /\ publicUrl = NULL
    /\ settings = NoSettings
    /\ notice = "none"
    /\ command = [name |-> "none"]

\* PluginController.selectSessionPage, the active file (or the file chosen
\* in the suggester) being file
selectSessionPage(file) ==
    /\ currentSessionFile' = file
    /\ notice' = "selected"
    /\ command' = [name |-> "selectSessionPage", running |-> serverRunning]
    /\ settings' = _saveSettings(file, serverRunning, tunnelUrl, publicUrl)
    /\ UNCHANGED <<vault, unreadable, parsed, response, exportVars>>
    /\ UNCHANGED <<serverRunning, listeners, routes, tunnelActive, tunnelUrl, publicUrl>>

\* what plugin.loadData() resolves with: nothing, or what _saveSettings
\* wrote in an earlier run, the document of the saved path being still in
\* the repository or not; a null path or URL is the empty text here (both
\* are falsy)
MissingPath == <<"g", "o", "n", "e", ".", "m", "d">>

SavedSettings(v) ==
    {NoSettings} \cup
    [saved : {TRUE},
     sessionFilePath : {<<>>, MissingPath} \cup { f.path : f \in Range(getMarkdownFiles(v)) },
     serverEnabled : BOOLEAN,
     publicUrl : {<<>>, TunnelUrl}]

\* app.vault.getAbstractFileByPath(path), when it is a TFile
FileByPath(path) ==
    LET hits == { f \in Range(getMarkdownFiles(vault)) : f.path = path }
    IN  IF hits = {} THEN NULL ELSE CHOOSE f \in hits : TRUE

\* an enableServer that starts the server whether or not an entry document
\* is selected
enableServer_unguarded(bind, tunnel) ==
    /\ routes < MaxRegistrations
    /\ command' = [name |-> "enableServer", running |-> serverRunning]
    /\ LET started == ServerManager_start(serverRunning, listeners, bind)
       IN  IF started.threw \/ tunnel.threw
           THEN /\ notice' = "startError"
                /\ UNCHANGED <<serverRunning, listeners, routes, tunnelActive, tunnelUrl,
                               publicUrl, settings, baseUrl, recentBase>>
           ELSE /\ serverRunning' = started.running
                /\ listeners' = started.listeners
                /\ routes' = routes + 1
                /\ tunnelActive' = TRUE
                /\ tunnelUrl' = tunnel.url
                /\ publicUrl' = tunnel.url
                /\ baseUrl' = tunnel.url
                /\ recentBase' = tunnel.url
                /\ notice' = "enabled"
                /\ settings' = _saveSettings(currentSessionFile, started.running,
                                             tunnel.url, tunnel.url)
    /\ UNCHANGED <<vault, unreadable, currentSessionFile, parsed, response, session, json>>

\* PluginController.enableServer; bind and tunnel are what the two start()
\* calls do
enableServer(bind, tunnel) ==
    /\ routes < MaxRegistrations
    /\ command' = [name |-> "enableServer", running |-> serverRunning]
    /\ LET started == ServerManager_start(serverRunning, listeners, bind)
       IN  IF currentSessionFile = NULL
           THEN /\ notice' = "selectFirst"
                /\ UNCHANGED <<serverRunning, listeners, routes, tunnelActive, tunnelUrl,
                               publicUrl, settings, baseUrl, recentBase>>
           ELSE IF started.threw
           THEN /\ notice' = "startError"
                /\ UNCHANGED <<serverRunning, listeners, routes, tunnelActive, tunnelUrl,
                               publicUrl, settings, baseUrl, recentBase>>
           ELSE IF tunnel.threw
           THEN /\ serverRunning' = started.running
                /\ listeners' = started.listeners
                /\ routes' = routes + 1
                /\ notice' = "startError"
                /\ UNCHANGED <<tunnelActive, tunnelUrl, publicUrl, settings, baseUrl,
                               recentBase>>
           ELSE /\ serverRunning' = started.running
                /\ listeners' = started.listeners
                /\ routes' = routes + 1
                /\ tunnelActive' = TRUE
                /\ tunnelUrl' = tunnel.url
                /\ publicUrl' = tunnel.url
                /\ baseUrl' = tunnel.url
                /\ recentBase' = tunnel.url
                /\ notice' = "enabled"
                /\ settings' = _saveSettings(currentSessionFile, started.running,
                                             tunnel.url, tunnel.url)
    /\ UNCHANGED <<vault, unreadable, currentSessionFile, parsed, response, session, json>>

\* PluginController.disableServer
disableServer ==
    /\ command' = [name |-> "disableServer", running |-> serverRunning]
    /\ LET stopped == ServerManager_stop(serverRunning, listeners)
       IN  /\ tunnelActive' = FALSE
           /\ tunnelUrl' = NULL
           /\ serverRunning' = stopped.running
           /\ listeners' = stopped.listeners
           /\ publicUrl' = NULL
           /\ notice' = "disabled"
           /\ settings' = _saveSettings(currentSessionFile, stopped.running, NULL, NULL)
    /\ UNCHANGED <<routes, vault, unreadable, currentSessionFile, parsed, response,
                   exportVars>>

\* PluginController._loadSettings, the last step of initialize(): the saved
\* values are taken over and, when the server was enabled, enableServer is
\* run with the entry document just restored
loadSettings(data, bind, tunnel) ==
    /\ command.name = "none"
    /\ command' = [name |-> "loadSettings", running |-> serverRunning]
    /\ IF ~data.saved
       THEN UNCHANGED <<currentSessionFile, serverRunning, listeners, routes, tunnelActive,
                        tunnelUrl, publicUrl, settings, notice, baseUrl, recentBase>>
       ELSE LET saved == IF data.sessionFilePath = <<>> THEN NULL
                         ELSE FileByPath(data.sessionFilePath)
                file == IF saved # NULL THEN saved ELSE currentSessionFile
                public == IF data.publicUrl = <<>> THEN NULL ELSE data.publicUrl
                started == ServerManager_start(serverRunning, listeners, bind)
            IN  /\ currentSessionFile' = file
                /\ IF ~data.serverEnabled
                   THEN /\ publicUrl' = public
                        /\ UNCHANGED <<serverRunning, listeners, routes, tunnelActive,
                                       tunnelUrl, settings, notice, baseUrl, recentBase>>
                   ELSE IF file = NULL
                   THEN /\ publicUrl' = public
                        /\ notice' = "selectFirst"
                        /\ UNCHANGED <<serverRunning, listeners, routes, tunnelActive,
                                       tunnelUrl, settings, baseUrl, recentBase>>
                   ELSE IF started.threw
                   THEN /\ publicUrl' = public
                        /\ notice' = "startError"
                        /\ UNCHANGED <<serverRunning, listeners, routes, tunnelActive,
                                       tunnelUrl, settings, baseUrl, recentBase>>
                   ELSE IF tunnel.threw
                   THEN /\ publicUrl' = public
                        /\ serverRunning' = started.running
                        /\ listeners' = started.listeners
                        /\ routes' = routes + 1
                        /\ notice' = "startError"
                        /\ UNCHANGED <<tunnelActive, tunnelUrl, settings, baseUrl,
                                       recentBase>>
                   ELSE /\ serverRunning' = started.running
                        /\ listeners' = started.listeners
                        /\ routes' = routes + 1
                        /\ tunnelActive' = TRUE
                        /\ tunnelUrl' = tunnel.url
                        /\ publicUrl' = tunnel.url
                        /\ baseUrl' = tunnel.url
                        /\ recentBase' = tunnel.url
                        /\ notice' = "enabled"
                        /\ settings' = _saveSettings(file, started.running, tunnel.url,
                                                     tunnel.url)
    /\ UNCHANGED <<vault, unreadable, parsed, response, session, json>>

-----------------------------------------------------------------------------
(* The commands step by step.  enableServer, disableServer and cleanup are *)
(* async: each runs until an await and resumes when the awaited call       *)
(* settles, and other commands run in between.  A command in progress is   *)
(* at the await it is suspended at; the awaited call takes effect when it  *)
(* settles.  After cleanup (the plugin is unloaded) no command is invoked, *)
(* the ones in progress still resume.                                      *)

Commands == 1..MaxCommands

NotInvoked == [name |-> "none", pc |-> "idle"]

Unloaded == \E c \in Commands : pending[c].name = "cleanup"

\* the next command is invoked: the first one not yet used
CanInvoke(c) ==
    /\ pending[c] = NotInvoked
    /\ \A d \in 1..(c - 1) : pending[d] # NotInvoked
    /\ ~Unloaded

At(c, name, pc) == pending[c] = [name |-> name, pc |-> pc]

Goto(c, name, pc) == pending' = [pending EXCEPT ![c] = [name |-> name, pc |-> pc]]

InitLifecycle ==
    /\ InitController
    /\ pending = [c \in Commands |-> NotInvoked]

\* enableServer up to await this.serverManager.start()
EnableInvoke(c) ==
    /\ CanInvoke(c)
    /\ IF currentSessionFile = NULL
       THEN /\ notice' = "selectFirst"
            /\ Goto(c, "enableServer", "done")
       ELSE /\ UNCHANGED notice
            /\ Goto(c, "enableServer", "start")
    /\ UNCHANGED <<serverRunning, listeners, routes, tunnelActive, tunnelUrl, publicUrl,
                   settings, command, repoVars, exportVars>>

\* start() settles; _registerRoutes; up to the await of the 500 ms timer
EnableStarted(c, bind) ==
    /\ At(c, "enableServer", "start")
    /\ LET started == ServerManager_start(serverRunning, listeners, bind)
       IN  IF started.threw
           THEN /\ notice' = "startError"
                /\ Goto(c, "enableServer", "done")
                /\ UNCHANGED <<serverRunning, listeners, routes>>
           ELSE /\ serverRunning' = started.running
                /\ listeners' = started.listeners
                /\ routes' = routes + 1
                /\ Goto(c, "enableServer", "wait")
                /\ UNCHANGED notice
    /\ UNCHANGED <<tunnelActive, tunnelUrl, publicUrl, settings, command, repoVars,
                   exportVars>>

\* the timer fires; up to await this.tunnelManager.start()
EnableWaited(c) ==
    /\ At(c, "enableServer", "wait")
    /\ notice' = "creatingTunnel"
    /\ Goto(c, "enableServer", "tunnel")
    /\ UNCHANGED <<serverRunning, listeners, routes, tunnelActive, tunnelUrl, publicUrl,
                   settings, command, repoVars, exportVars>>

\* the tunnel's start() settles; publicUrl, setBaseUrl, the Notice; up to
\* await this._saveSettings()
EnableTunnelled(c, tunnel) ==
    /\ At(c, "enableServer", "tunnel")
    /\ IF tunnel.threw
       THEN /\ notice' = "startError"
            /\ Goto(c, "enableServer", "done")
            /\ UNCHANGED <<tunnelActive, tunnelUrl, publicUrl, settings, baseUrl, recentBase>>
       ELSE /\ tunnelActive' = TRUE
            /\ tunnelUrl' = tunnel.url
            /\ publicUrl' = tunnel.url
            /\ baseUrl' = tunnel.url
            /\ recentBase' = tunnel.url
            /\ notice' = "enabled"
            /\ settings' = _saveSettings(currentSessionFile, serverRunning, tunnel.url,
                                         tunnel.url)
            /\ Goto(c, "enableServer", "save")
    /\ UNCHANGED <<serverRunning, listeners, routes, command, repoVars, session, json>>

\* disableServer up to its first await: the tunnel's stop() when the tunnel
\* is active, else the server's stop()
DisableInvoke(c) ==
    /\ CanInvoke(c)
    /\ Goto(c, "disableServer", IF tunnelActive THEN "tunnelStop" ELSE "serverStop")
    /\ UNCHANGED <<controllerVars, repoVars, exportVars>>

\* the tunnel's stop() settles; up to await this.serverManager.stop()
DisableTunnelStopped(c) ==
    /\ At(c, "disableServer", "tunnelStop")
    /\ tunnelActive' = FALSE
    /\ tunnelUrl' = NULL
    /\ Goto(c, "disableServer", "serverStop")
    /\ UNCHANGED <<serverRunning, listeners, routes, publicUrl, settings, notice, command,
                   repoVars, exportVars>>

\* the server's stop() settles; publicUrl = null, the Notice; up to
\* await this._saveSettings()
DisableServerStopped(c) ==
    /\ At(c, "disableServer", "serverStop")
    /\ LET stopped == ServerManager_stop(serverRunning, listeners)
       IN  /\ serverRunning' = stopped.running
           /\ listeners' = stopped.listeners
           /\ publicUrl' = NULL
           /\ notice' = "disabled"
           /\ settings' = _saveSettings(currentSessionFile, stopped.running, tunnelUrl, NULL)
    /\ Goto(c, "disableServer", "save")
    /\ UNCHANGED <<routes, tunnelActive, tunnelUrl, command, repoVars, exportVars>>

\* _saveSettings settles and the command returns
SettingsSaved(c) ==
    /\ \E name \in {"enableServer", "disableServer"} :
          /\ At(c, name, "save")
          /\ Goto(c, name, "done")
    /\ UNCHANGED <<controllerVars, repoVars, exportVars>>

\* cleanup up to its first await
CleanupInvoke(c) ==
    /\ CanInvoke(c)
    /\ Goto(c, "cleanup", IF tunnelActive THEN "tunnelStop"
                          ELSE IF serverRunning THEN "serverStop" ELSE "done")
    /\ UNCHANGED <<controllerVars, repoVars, exportVars>>

\* the tunnel's stop() settles; up to the server's stop() when it is running
CleanupTunnelStopped(c) ==
    /\ At(c, "cleanup", "tunnelStop")
    /\ tunnelActive' = FALSE
    /\ tunnelUrl' = NULL
    /\ Goto(c, "cleanup", IF serverRunning THEN "serverStop" ELSE "done")
    /\ UNCHANGED <<serverRunning, listeners, routes, publicUrl, settings, notice, command,
                   repoVars, exportVars>>

\* the server's stop() settles and cleanup returns
CleanupServerStopped(c) ==
    /\ At(c, "cleanup", "serverStop")
    /\ LET stopped == ServerManager_stop(serverRunning, listeners)
       IN  /\ serverRunning' = stopped.running
           /\ listeners' = stopped.listeners
    /\ Goto(c, "cleanup", "done")
    /\ UNCHANGED <<routes, tunnelActive, tunnelUrl, publicUrl, settings, notice, command,
                   repoVars, exportVars>>

-----------------------------------------------------------------------------
(* GET /gm-vault requests in flight together.  A handler runs until it     *)
(* awaits a read of the repository, and other handlers and commands run    *)
(* before it resumes: one step per read.  Each request holds the entry     *)
(* document it read from the controller when it started, the Session it    *)
(* builds, and the folders it is scanning (innermost first): for each, the *)
(* place of its category in the Session (the indices from the root         *)
(* category down) and the sorted files and folders still to visit.         *)

Requests == 1..MaxRequests

NotReceived ==
    [pc |-> "idle", entry |-> NULL, session |-> NULL, stack |-> <<>>,
     response |-> NoResponse, overlapped |-> FALSE]

\* new Category(name)
Category(name) == [name |-> name, pages |-> <<>>, categories |-> <<>>]

\* the category at a place of the tree
RECURSIVE CategoryAt(_, _)
CategoryAt(categories, place) ==
    IF Len(place) = 1 THEN categories[Head(place)]
    ELSE CategoryAt(categories[Head(place)].categories, Tail(place))

\* category.addPage(page), for the category at a place of the tree
RECURSIVE AddPageAt(_, _, _)
AddPageAt(categories, place, page) ==
    LET c == categories[Head(place)]
    IN  [categories EXCEPT ![Head(place)] =
            IF Len(place) = 1 THEN [c EXCEPT !.pages = Append(c.pages, page)]
            ELSE [c EXCEPT !.categories = AddPageAt(c.categories, Tail(place), page)]]

\* category.addCategory(subCategory), for the category at a place of the tree
RECURSIVE AddCategoryAt(_, _, _)
AddCategoryAt(categories, place, subCategory) ==
    LET c == categories[Head(place)]
    IN  [categories EXCEPT ![Head(place)] =
            IF Len(place) = 1 THEN [c EXCEPT !.categories = Append(c.categories, subCategory)]
            ELSE [c EXCEPT !.categories =
                               AddCategoryAt(c.categories, Tail(place), subCategory)]]

\* the start of _scanFolder(folder, category, sessionFile): the children,
\* separated and sorted
OpenFolder(folder, place) ==
    [place |-> place,
     files |-> sortByName(SelectMarkdown(folder.children)),
     folders |-> sortByName(SelectFolders(folder.children))]

\* a scan that skips the document selected now, not the one it was given
RECURSIVE Advance_selectedNow(_)
Advance_selectedNow(run) ==
    IF run.stack = <<>> THEN run
    ELSE LET frame == Head(run.stack)
         IN  IF frame.files # <<>>
             THEN IF Head(frame.files).path = currentSessionFile.path
                  THEN Advance_selectedNow(
                           [run EXCEPT !.stack = <<[frame EXCEPT !.files = Tail(@)]>>
                                                     \o Tail(run.stack)])
                  ELSE run
             ELSE IF frame.folders # <<>>
             THEN LET subFolder == Head(frame.folders)
                      index == Len(CategoryAt(run.session.categories, frame.place).categories) + 1
                  IN  Advance_selectedNow(
                          [run EXCEPT
                              !.session.categories =
                                  AddCategoryAt(@, frame.place, Category(subFolder.name)),
                              !.stack = <<OpenFolder(subFolder, frame.place \o <<index>>),
                                          [frame EXCEPT !.folders = Tail(@)]>>
                                            \o Tail(run.stack)])
             ELSE Advance_selectedNow([run EXCEPT !.stack = Tail(@)])

\* SessionParser._scanFolder between two reads: the entry document is
\* skipped, an exhausted list of files is followed by the folders (a category
\* is added and its folder scanned), an exhausted folder is returned from
RECURSIVE Advance(_)
Advance(run) ==
    IF run.stack = <<>> THEN run
    ELSE LET frame == Head(run.stack)
         IN  IF frame.files # <<>>
             THEN IF Head(frame.files).path = run.entry.path
                  THEN Advance([run EXCEPT !.stack = <<[frame EXCEPT !.files = Tail(@)]>>
                                                         \o Tail(run.stack)])
                  ELSE run
             ELSE IF frame.folders # <<>>
             THEN LET subFolder == Head(frame.folders)
                      index == Len(CategoryAt(run.session.categories, frame.place).categories) + 1
                  IN  Advance([run EXCEPT
                                  !.session.categories =
                                      AddCategoryAt(@, frame.place, Category(subFolder.name)),
                                  !.stack = <<OpenFolder(subFolder, frame.place \o <<index>>),
                                              [frame EXCEPT !.folders = Tail(@)]>>
                                                \o Tail(run.stack)])
             ELSE Advance([run EXCEPT !.stack = Tail(@)])

\* the handler after parseSession has returned: buildJSON and sendJSON
Respond(run) ==
    [run EXCEPT !.pc = "done",
                !.response = sendJSON(buildJSON(run.session, baseUrl), 200)]

\* the scan goes on to its next read, or the handler responds
Resume(run) ==
    LET scanning == Advance(run)
    IN  IF scanning.stack = <<>> THEN Respond(scanning) ELSE [scanning EXCEPT !.pc = "scan"]

InFlight(r) == requests[r].pc \in {"rootName", "scan"}

\* the request's handler has run while another request was in flight
Overlapping(r, run) ==
    [run EXCEPT !.overlapped = @ \/ \E other \in Requests \ {r} : InFlight(other)]

\* the handler of GET /gm-vault up to its first read
Receive(r) ==
    /\ requests[r].pc = "idle"
    /\ requests' =
          [requests EXCEPT ![r] =
              Overlapping(r,
                  IF currentSessionFile = NULL
                  THEN [@ EXCEPT !.pc = "done",
                                 !.response =
                                     sendJSON([error |-> "No hay pagina de sesion seleccionada"],
                                              400)]
                  ELSE LET started ==
                               [@ EXCEPT !.entry = currentSessionFile,
                                         !.session = [name |-> currentSessionFile.basename,
                                                      categories |-> <<>>]]
                       IN  IF ~currentSessionFile.hasParent THEN Respond(started)
                           ELSE [started EXCEPT !.pc = "rootName"])]
    /\ UNCHANGED <<repoVars, exportVars, controllerVars>>

\* parseSession resumes after the read of _getRootCategoryName
RootNameRead(r) ==
    /\ requests[r].pc = "rootName"
    /\ LET run == requests[r]
           rootCategoryName == _getRootCategoryName(run.entry)
       IN  requests' =
             [requests EXCEPT ![r] =
                 Overlapping(r,
                     IF rootCategoryName.threw
                     THEN [run EXCEPT !.pc = "done",
                                      !.response =
                                          sendJSON([error |-> "Error al generar JSON"], 500)]
                     ELSE Resume([run EXCEPT
                                     !.session.categories =
                                         <<Category(rootCategoryName.value)>>,
                                     !.stack =
                                         <<OpenFolder(FolderAt(run.entry.parent), <<1>>)>>]))]
    /\ UNCHANGED <<repoVars, exportVars, controllerVars>>

\* _scanFolder resumes after the read of _getPageName
PageRead(r) ==
    /\ requests[r].pc = "scan"
    /\ LET run == requests[r]
           frame == Head(run.stack)
           file == Head(frame.files)
       IN  requests' =
             [requests EXCEPT ![r] =
                 Overlapping(r,
                     Resume([run EXCEPT
                                !.session.categories = AddPageAt(@, frame.place, PageOf(file)),
                                !.stack = <<[frame EXCEPT !.files = Tail(@)]>>
                                              \o Tail(run.stack)]))]
    /\ UNCHANGED <<repoVars, exportVars, controllerVars>>

\* the repository the requests are run on
RequestVaults == { VaultOf(<<"n", "e", "a">>, TitledText, <<"e", "d", "b">>) }

\* the documents selected between their steps: the entry documents of the
\* session folder and of folder n
RequestEntries(v) ==
    { f \in Range(getMarkdownFiles(v)) : f.basename = <<"e">> /\ f.parent # DeepDir }

InitRequests ==
    /\ vault \in RequestVaults
    /\ unreadable \in {{}, {EntryFile(<<>>).path}}
    /\ currentSessionFile = NULL
    /\ parsed = NotParsed
    /\ response = NoResponse
    /\ IdleExport
    /\ IdleController
    /\ requests = [r \in Requests |-> NotReceived]

\* a request, dispatched by the running server to a registered route
Dispatch ==
    /\ serverRunning
    /\ routes > 0
    /\ \/ GetGmVault
       \/ \E slug \in ControllerSlugs, renderThrows \in BOOLEAN : GetPage(slug, renderThrows)

-----------------------------------------------------------------------------
(* The text rule MarkdownRenderer._configureWikiLinks installs in the       *)
(* Markdown engine: what it returns for a text node with the given content. *)

Pipe == "|"
AnchorOpen == <<"<", "a", " ", "h", "r", "e", "f", "=", "\"">>
AnchorMid == <<"\"", ">">>
AnchorClose == <<"<", "/", "a", ">">>

RECURSIVE SplitOnFrom(_, _, _)
SplitOnFrom(text, sep, piece) ==
    IF text = <<>> THEN <<piece>>
    ELSE IF Head(text) = sep
         THEN <<piece>> \o SplitOnFrom(Tail(text), sep, <<>>)
         ELSE SplitOnFrom(Tail(text), sep, Append(piece, Head(text)))

\* text.split(sep)
splitOn(text, sep) == SplitOnFrom(text, sep, <<>>)

\* a callback that slugs the whole content of the token
wikiLinkAnchor_slugOfContent(linkContent, base) ==
    LET pieces == IF \E i \in 1..Len(linkContent) : linkContent[i] = Pipe
                  THEN [i \in 1..Len(splitOn(linkContent, Pipe)) |->
                            trim(splitOn(linkContent, Pipe)[i])]
                  ELSE <<trim(linkContent), trim(linkContent)>>
        displayName == pieces[2]
        slug == _slugify(linkContent)
        href == IF base # NoBase THEN base \o PagesPath \o slug ELSE PagesPath \o slug
    IN  AnchorOpen \o href \o AnchorMid \o _escapeHtml(displayName) \o AnchorClose

\* the callback of content.replace(wikiLinkRegex, ...): the anchor for one match
wikiLinkAnchor(linkContent, base) ==
    LET pieces == IF \E i \in 1..Len(linkContent) : linkContent[i] = Pipe
                  THEN [i \in 1..Len(splitOn(linkContent, Pipe)) |->
                            trim(splitOn(linkContent, Pipe)[i])]
                  ELSE <<trim(linkContent), trim(linkContent)>>
        linkPath == pieces[1]
        displayName == pieces[2]
        slug == _slugify(linkPath)
        href == IF base # NoBase THEN base \o PagesPath \o slug ELSE PagesPath \o slug
    IN  AnchorOpen \o href \o AnchorMid \o _escapeHtml(displayName) \o AnchorClose

\* a match of /\[\[([^\]]+)\]\]/ starting at index p: its end and $1
WikiLinkMatchAt(text, p) ==
    LET j == IndexOfAny(text, p + 2, {"]"})
    IN  IF /\ p + 1 <= Len(text)
           /\ text[p] = "["
           /\ text[p + 1] = "["
           /\ j > p + 2
           /\ j + 1 <= Len(text)
           /\ text[j + 1] = "]"
        THEN [matched |-> TRUE, end |-> j + 1, linkContent |-> SubSeq(text, p + 2, j - 1)]
        ELSE [matched |-> FALSE]

\* wikiLinkRegex.test(content)
HasWikiLink(text) == \E p \in 1..Len(text) : WikiLinkMatchAt(text, p).matched

\* content.replace(wikiLinkRegex, callback) from index p on
RECURSIVE ReplaceWikiFrom(_, _, _)
ReplaceWikiFrom(text, p, base) ==
    IF p > Len(text) THEN <<>>
    ELSE LET m == WikiLinkMatchAt(text, p)
         IN  IF m.matched
             THEN wikiLinkAnchor(m.linkContent, base) \o ReplaceWikiFrom(text, m.end + 1, base)
             ELSE <<text[p]>> \o ReplaceWikiFrom(text, p + 1, base)

escapeCharDefault(c) == IF c = "'" THEN <<c>> ELSE escapeChar(c)

\* the engine's own text rule: the content with & < > " escaped
defaultInline(text) == Flatten([i \in 1..Len(text) |-> escapeCharDefault(text[i])])

\* md.renderer.rules.text, with this.baseUrl = base
textRule(text, base) ==
    IF HasWikiLink(text) THEN ReplaceWikiFrom(text, 1, base) ELSE defaultInline(text)

(* The text nodes rendered: pieces of plain text and cross-reference tokens, *)
(* targets and aliases free of brackets.                                     *)
TextPieces == { <<"x", " ">>, <<"a", "<", "b">> }
Targets == { <<"F", " ", "b">>, <<" ", "M", "&", "a">> }
Aliases == { <<"D">>, <<" ", "D", " ">>, <<"<", "D">>, <<"D", "|", "e">> }

Pieces ==
    [kind : {"text"}, text : TextPieces]
        \cup [kind : {"link"}, target : Targets, aliased : {FALSE}]
        \cup [kind : {"link"}, target : Targets, aliased : {TRUE}, alias : Aliases]

\* the source text of a piece
SourceOf(piece) ==
    IF piece.kind = "text" THEN piece.text
    ELSE <<"[", "[">> \o piece.target
            \o (IF piece.aliased THEN <<Pipe>> \o piece.alias ELSE <<>>)
            \o <<"]", "]">>

NotRendered == [done |-> FALSE]

InitWiki ==
    /\ parts \in UNION { [1..n -> Pieces] : n \in 1..MaxParts }
    /\ content = Flatten([i \in 1..Len(parts) |-> SourceOf(parts[i])])
    /\ rendererBaseUrl = NoBase
    /\ rendered = NotRendered

\* MarkdownRenderer.setBaseUrl
setRendererBaseUrl(u) ==
    /\ rendererBaseUrl' = u
    /\ UNCHANGED <<parts, content, rendered>>

\* the engine renders the text node
RenderText ==
    /\ rendered' = [done |-> TRUE,
                    value |-> textRule(content, rendererBaseUrl),
                    base |-> rendererBaseUrl]
    /\ UNCHANGED <<parts, content, rendererBaseUrl>>

-----------------------------------------------------------------------------
(* Flat extraction over one document (the in-document mode of the parser): *)
(* every cross-reference token of every line, de-duplicated by slug.       *)

PagesName == <<"P", "a", "g", "e", "s">>

\* new Page(name, slug, [])
Page(name, slug) == [name |-> name, slug |-> slug, blockTypes |-> <<>>]

\* a token [[target]] or [[target|Display Text]] starting at index i of the
\* line: its end, its target and its display text
FlatTokenAt(line, i) ==
    LET m == PlainWikiMatchAt(line, i)
        j == IndexOfAny(line, i + 2, {"]", "|"})
    IN  IF ~m.matched THEN [matched |-> FALSE]
        ELSE [matched |-> TRUE, end |-> m.end, target |-> m.target,
              display |-> IF line[j] = "|" THEN SubSeq(line, j + 1, m.end - 2)
                          ELSE m.target]

\* the tokens of a line, in order
RECURSIVE TokensFrom(_, _)
TokensFrom(line, i) ==
    IF i > Len(line) THEN <<>>
    ELSE LET m == FlatTokenAt(line, i)
         IN  IF m.matched
             THEN <<[target |-> m.target, display |-> m.display]>>
                      \o TokensFrom(line, m.end + 1)
             ELSE TokensFrom(line, i + 1)

\* the key a cross-reference is remembered under: the target itself
SeenKey_target(target) == target

\* the key a cross-reference is remembered under: its slug
SeenKey(target) == slugify(target)

\* one Page per token whose key was not seen before
RECURSIVE UniquePages(_, _)
UniquePages(tokens, seen) ==
    IF tokens = <<>> THEN <<>>
    ELSE LET t == Head(tokens)
         IN  IF SeenKey(t.target) \in seen
             THEN UniquePages(Tail(tokens), seen)
             ELSE <<Page(t.display, slugify(t.target))>>
                      \o UniquePages(Tail(tokens), seen \cup {SeenKey(t.target)})

\* flat extraction: the categories emitted for the text of a document
flatExtraction(text) ==
    LET lines == split(text)
        tokens == Flatten([k \in 1..Len(lines) |-> TokensFrom(lines[k], 1)])
        pages == UniquePages(tokens, {})
    IN  IF pages = <<>> THEN <<>>
        ELSE <<[name |-> PagesName, pages |-> pages, categories |-> <<>>]>>

(* The documents: up to MaxFragments pieces, each a piece of plain text, a  *)
(* line break or a token; two of the targets have the same slug.            *)
FlatTexts == { <<"x">>, <<NewLine>> }
FlatTargets == { <<"A">>, <<"a", "!">>, <<"B">> }
FlatAliases == { <<"D">>, <<"E">> }

Fragments ==
    [kind : {"text"}, text : FlatTexts]
        \cup [kind : {"link"}, target : FlatTargets, aliased : {FALSE}]
        \cup [kind : {"link"}, target : FlatTargets, aliased : {TRUE}, alias : FlatAliases]

NotExtracted == [done |-> FALSE]

InitFlat ==
    /\ fragments \in UNION { [1..n -> Fragments] : n \in 0..MaxFragments }
    /\ document = Flatten([i \in 1..Len(fragments) |-> SourceOf(fragments[i])])
    /\ extracted = NotExtracted

\* flat extraction, run on the document
ExtractFlat ==
    /\ ~extracted.done
    /\ extracted' = [done |-> TRUE, value |-> flatExtraction(document)]
    /\ UNCHANGED <<fragments, document>>

-----------------------------------------------------------------------------
(* MarkdownRenderer._convertRelativeUrlsToAbsolute.                         *)

\* .replace(/\s+/g, ' ')
RECURSIVE CollapseSpaces(_)
CollapseSpaces(text) ==
    IF text = <<>> THEN <<>>
    ELSE IF IsSpace(Head(text))
         THEN <<" ">> \o CollapseSpaces(DropWhileSpace(text))
         ELSE <<Head(text)>> \o CollapseSpaces(Tail(text))

\* baseUrl.replace(/\/$/, '')
StripEndSlash(base) ==
    IF base # <<>> /\ base[Len(base)] = "/"
    THEN SubSeq(base, 1, Len(base) - 1)
    ELSE base

\* whether the word stands at index p of the text, letter case ignored
MatchesAt(text, p, word) ==
    /\ p + Len(word) - 1 <= Len(text)
    /\ toLowerCase(SubSeq(text, p, p + Len(word) - 1)) = word

Maximum(S) == CHOOSE x \in S : \A y \in S : y <= x

\* a match of /<tag\s+([^>]*\s+)?attr="(\/[^"]+)"/i starting at index p: its end,
\* $1 and $2.  The optional group is greedy: of the attributes of the tag that
\* can end the match, the last one does.
UrlMatchAt(text, p, tag, attr) ==
    LET opening == <<"<">> \o tag
        q == p + Len(opening)
        attrEq == attr \o <<"=", "\"">>
        closing(h) == IndexOfAny(text, h + Len(attrEq) + 1, {"\""})
        candidates ==
            { h \in (q + 1)..Len(text) :
                /\ MatchesAt(text, h, attrEq)
                /\ IsSpace(text[h - 1])
                /\ \A k \in q..(h - 1) : text[k] # ">"
                /\ h + Len(attrEq) <= Len(text)
                /\ text[h + Len(attrEq)] = "/"
                /\ closing(h) > h + Len(attrEq) + 1 }
    IN  IF MatchesAt(text, p, opening) /\ q <= Len(text) /\ IsSpace(text[q])
           /\ candidates # {}
        THEN LET h == Maximum(candidates)
                 afterSpaces == q + Len(SubSeq(text, q, Len(text)))
                                  - Len(DropWhileSpace(SubSeq(text, q, Len(text))))
             IN  [matched |-> TRUE,
                  end |-> closing(h),
                  attrs |-> IF h > afterSpaces THEN SubSeq(text, afterSpaces, h - 1) ELSE <<>>,
                  url |-> SubSeq(text, h + Len(attrEq), closing(h) - 1)]
        ELSE [matched |-> FALSE]

\* the callback of html.replace(...): the replacement of one match
absoluteTag(match, attrs, url, tag, attr, normalizedBase) ==
    IF startsWith(url, <<"/">>) /\ ~startsWith(url, <<"/", "/">>)
    THEN trim(CollapseSpaces(<<"<">> \o tag \o <<" ">> \o attrs \o attr \o <<"=", "\"">>
                                \o normalizedBase \o url \o <<"\"">>))
    ELSE match

\* html.replace(/<tag\s+([^>]*\s+)?attr="(\/[^"]+)"/gi, callback) from index p on
RECURSIVE ReplaceUrlsFrom(_, _, _, _, _)
ReplaceUrlsFrom(text, p, tag, attr, normalizedBase) ==
    IF p > Len(text) THEN <<>>
    ELSE LET m == UrlMatchAt(text, p, tag, attr)
         IN  IF m.matched
             THEN absoluteTag(SubSeq(text, p, m.end), m.attrs, m.url, tag, attr, normalizedBase)
                      \o ReplaceUrlsFrom(text, m.end + 1, tag, attr, normalizedBase)
             ELSE <<text[p]>> \o ReplaceUrlsFrom(text, p + 1, tag, attr, normalizedBase)

_convertRelativeUrlsToAbsolute(text, base) ==
    LET normalizedBase == StripEndSlash(base)
        anchorsDone == ReplaceUrlsFrom(text, 1, <<"a">>, <<"h", "r", "e", "f">>, normalizedBase)
    IN  ReplaceUrlsFrom(anchorsDone, 1, <<"i", "m", "g">>, <<"s", "r", "c">>, normalizedBase)

(* The HTML converted: two elements, each an anchor or an image, alone in  *)
(* its tag or after another attribute, with every short value of its href  *)
(* or src over '/' and a letter.                                           *)
UrlChars == {"/", "x"}
Urls == UNION { [1..n -> UrlChars] : n \in 1..MaxUrlLen }
Leads == { <<>>, <<"i", "d", "=", "\"", "i", "\"", " ">> }
\* the attributes before the last one: none, an id, or the URL attribute once more
FirstUrl == <<"/", "x">>
LeadsOf(attr) == Leads \cup { attr \o <<"=", "\"">> \o FirstUrl \o <<"\"", " ">> }
Elements ==
    [tag : {<<"a">>}, attr : {<<"h", "r", "e", "f">>},
     lead : LeadsOf(<<"h", "r", "e", "f">>), url : Urls]
        \cup [tag : {<<"i", "m", "g">>}, attr : {<<"s", "r", "c">>},
               lead : LeadsOf(<<"s", "r", "c">>), url : Urls]
UrlBases == { TunnelUrl, TunnelUrl \o <<"/">> }

\* the source text of an element
SourceOfElement(e) ==
    <<"<">> \o e.tag \o <<" ">> \o e.lead \o e.attr \o <<"=", "\"">> \o e.url \o <<"\"", ">">>

NotConverted == [done |-> FALSE]

InitUrl ==
    /\ elements \in [1..2 -> Elements]
    /\ html = Flatten([i \in 1..Len(elements) |-> SourceOfElement(elements[i])])
    /\ urlBase \in UrlBases
    /\ converted = NotConverted
    /\ reconverted = NotConverted

\* the pass, run on the HTML
ConvertUrls ==
    /\ converted' = [done |-> TRUE, value |-> _convertRelativeUrlsToAbsolute(html, urlBase)]
    /\ UNCHANGED <<elements, html, urlBase, reconverted>>

\* the pass, run once more on what it returned
ConvertAgain ==
    /\ converted.done
    /\ reconverted' = [done |-> TRUE,
                       value |-> _convertRelativeUrlsToAbsolute(converted.value, urlBase)]
    /\ UNCHANGED <<elements, html, urlBase, converted>>

-----------------------------------------------------------------------------
(* MarkdownRenderer._addNotionClasses.  In the HTML this pass is run on,    *)
(* the text class=" and every class name the pass writes stand as one       *)
(* element of the sequence each; "notion-bulleted-list-item" is the element *)
(* "notion-bulleted-list" followed by the element "-item", so that the      *)
(* pass's substring tests see one name inside the other.                    *)

ClassAttr == "class=\""
Quote == "\""
ItemSuffix == "-item"

\* the first index from i on where the word stands in the text, or 0
IndexOfWord(text, i, word) ==
    LET hits == { k \in i..(Len(text) - Len(word) + 1) :
                    SubSeq(text, k, k + Len(word) - 1) = word }
    IN  IF hits = {} THEN 0 ELSE Minimum(hits)

\* text.includes(word)
includes(text, word) == IndexOfWord(text, 1, word) # 0

\* an element of the text in which a double quote stands
HasQuote(c) == c \in {Quote, ClassAttr}

\* a pass whose lookahead never finds the class
HasClassAhead_absent(text, q, className) == FALSE

\* the pattern of the lookahead (?![^>]*class="[^"]*className), tried at index q
\* under the i flag
HasClassAhead(text, q, className) ==
    \E k \in q..Len(text) :
        /\ toLowerCaseChar(text[k]) = ClassAttr
        /\ \A j \in q..(k - 1) : text[j] # ">"
        /\ \E m \in (k + 1)..Len(text) :
              /\ toLowerCaseChar(text[m]) = className
              /\ \A j \in (k + 1)..(m - 1) : ~HasQuote(text[j])

\* the pattern of the lookahead (?![^>]*<pre), tried at index q
HasPreAhead(text, q) ==
    \E k \in q..Len(text) :
        /\ MatchesAt(text, k, <<"<", "p", "r", "e">>)
        /\ \A j \in q..(k - 1) : text[j] # ">"

\* the tag a replacement callback returns
WithClass(tag, attrs, className) ==
    IF trim(attrs) # <<>>
    THEN <<"<">> \o tag \o attrs \o <<" ", ClassAttr, className, Quote, ">">>
    ELSE <<"<">> \o tag \o <<" ", ClassAttr, className, Quote, ">">>

\* processed.replace(/<tag(?![^>]*class="[^"]*className)([^>]*)>/gi, callback).
\* how = "literal": the callback writes the tag as the code spells it (addClass,
\* and the pass for code, which has a second lookahead); how = "matched": the
\* callback writes the tag as the text spells it.  from[p] is the replaced text
\* from index p on.
AddClassTo(text, tag, className, how) ==
    LET from[p \in 1..(Len(text) + 1)] ==
            IF p > Len(text) THEN <<>>
            ELSE IF text[p] # "<"
            THEN LET n == IndexOfAny(text, p, {"<"})
                 IN  IF n = 0 THEN SubSeq(text, p, Len(text))
                     ELSE SubSeq(text, p, n - 1) \o from[n]
            ELSE LET q == p + 1 + Len(tag)
                     g == IndexOfAny(text, q, {">"})
                 IN  IF /\ MatchesAt(text, p, <<"<">> \o tag)
                        /\ g # 0
                        /\ ~HasClassAhead(text, q, className)
                        /\ (tag = <<"c", "o", "d", "e">> => ~HasPreAhead(text, q))
                     THEN WithClass(IF how = "matched" THEN SubSeq(text, p + 1, q - 1)
                                    ELSE tag,
                                    SubSeq(text, q, g - 1), className)
                              \o from[g + 1]
                     ELSE <<text[p]>> \o from[p + 1]
    IN  from[1]

\* addClass(tag, className)
addClass(text, tag, className) == AddClassTo(text, tag, className, "literal")

\* the replace calls written out for code, strong, b, em, i, s and del
addClassInline(text, tag, className) ==
    AddClassTo(text, tag, className,
               IF tag = <<"c", "o", "d", "e">> THEN "literal" ELSE "matched")

\* 'class="notion-bulleted-list-item"' and 'class="notion-numbered-list-item"'
ItemClassAttr(listClass) == <<ClassAttr, listClass, ItemSuffix, Quote>>

\* content.replace(/<li([^>]*)>/gi, callback); from[p] is the replaced text from
\* index p on
ItemsOf(text, listClass) ==
    LET from[p \in 1..(Len(text) + 1)] ==
            IF p > Len(text) THEN <<>>
            ELSE IF text[p] # "<"
            THEN LET n == IndexOfAny(text, p, {"<"})
                 IN  IF n = 0 THEN SubSeq(text, p, Len(text))
                     ELSE SubSeq(text, p, n - 1) \o from[n]
            ELSE LET q == p + 3
                     g == IndexOfAny(text, q, {">"})
                     liAttrs == SubSeq(text, q, g - 1)
                 IN  IF MatchesAt(text, p, <<"<", "l", "i">>) /\ g # 0
                     THEN (IF liAttrs = <<>> \/ ~includes(liAttrs, ItemClassAttr(listClass))
                           THEN IF trim(liAttrs) # <<>>
                                THEN <<"<", "l", "i">> \o liAttrs \o <<" ">>
                                         \o ItemClassAttr(listClass) \o <<">">>
                                ELSE <<"<", "l", "i", " ">> \o ItemClassAttr(listClass)
                                         \o <<">">>
                           ELSE SubSeq(text, p, g))
                              \o from[g + 1]
                     ELSE <<text[p]>> \o from[p + 1]
    IN  from[1]

\* a match of /(<tag[^>]*class="[^"]*listClass[^>]*>)([\s\S]*?)(<\/tag>)/ starting
\* at index p: the last index of the opening tag and the first of the closing one
ListMatchAt(text, p, tag, listClass) ==
    LET q == p + 1 + Len(tag)
        closeTag == <<"<", "/">> \o tag \o <<">">>
        openEnd(m) == IndexOfAny(text, m + 1, {">"})
        closeAt(m) == IF openEnd(m) = 0 THEN 0 ELSE IndexOfWord(text, openEnd(m) + 1, closeTag)
        names == { m \in (q + 1)..Len(text) :
                     /\ text[m] = listClass
                     /\ \E k \in q..(m - 1) :
                           /\ text[k] = ClassAttr
                           /\ \A j \in q..(k - 1) : text[j] # ">"
                           /\ \A j \in (k + 1)..(m - 1) : ~HasQuote(text[j])
                     /\ closeAt(m) # 0 }
    IN  IF /\ text[p] = "<"
           /\ p + Len(tag) <= Len(text)
           /\ SubSeq(text, p, q - 1) = <<"<">> \o tag
           /\ names # {}
        THEN [matched |-> TRUE,
              openEnd |-> openEnd(Maximum(names)),
              closeAt |-> closeAt(Maximum(names)),
              end |-> closeAt(Maximum(names)) + Len(closeTag) - 1]
        ELSE [matched |-> FALSE]

\* the replace call that classes the items of the lists of one kind; from[p] is
\* the replaced text from index p on
ListItemsOf(text, tag, listClass) ==
    LET from[p \in 1..(Len(text) + 1)] ==
            IF p > Len(text) THEN <<>>
            ELSE IF text[p] # "<"
            THEN LET n == IndexOfAny(text, p, {"<"})
                 IN  IF n = 0 THEN SubSeq(text, p, Len(text))
                     ELSE SubSeq(text, p, n - 1) \o from[n]
            ELSE LET m == ListMatchAt(text, p, tag, listClass)
                 IN  IF m.matched
                     THEN SubSeq(text, p, m.openEnd)
                              \o ItemsOf(SubSeq(text, m.openEnd + 1, m.closeAt - 1), listClass)
                              \o SubSeq(text, m.closeAt, m.end)
                              \o from[m.end + 1]
                     ELSE <<text[p]>> \o from[p + 1]
    IN  from[1]

\* the passes of _addNotionClasses, in the order of the code: what each does to
\* the text the one before returned
ClassPasses ==
    << [kind |-> "addClass", tag |-> <<"p">>, class |-> "notion-paragraph"],
       [kind |-> "addClass", tag |-> <<"u", "l">>, class |-> "notion-bulleted-list"],
       [kind |-> "addClass", tag |-> <<"o", "l">>, class |-> "notion-numbered-list"],
       [kind |-> "items", tag |-> <<"u", "l">>, class |-> "notion-bulleted-list"],
       [kind |-> "items", tag |-> <<"o", "l">>, class |-> "notion-numbered-list"],
       [kind |-> "addClass", tag |-> <<"p", "r", "e">>, class |-> "notion-code"],
       [kind |-> "inline", tag |-> <<"c", "o", "d", "e">>, class |-> "notion-text-code"],
       [kind |-> "addClass", tag |-> <<"a">>, class |-> "notion-text-link"],
       [kind |-> "inline", tag |-> <<"s", "t", "r", "o", "n", "g">>, class |-> "notion-text-bold"],
       [kind |-> "inline", tag |-> <<"b">>, class |-> "notion-text-bold"],
       [kind |-> "inline", tag |-> <<"e", "m">>, class |-> "notion-text-italic"],
       [kind |-> "inline", tag |-> <<"i">>, class |-> "notion-text-italic"],
       [kind |-> "addClass", tag |-> <<"u">>, class |-> "notion-text-underline"],
       [kind |-> "inline", tag |-> <<"s">>, class |-> "notion-text-strikethrough"],
       [kind |-> "inline", tag |-> <<"d", "e", "l">>, class |-> "notion-text-strikethrough"],
       [kind |-> "addClass", tag |-> <<"b", "l", "o", "c", "k", "q", "u", "o", "t", "e">>,
        class |-> "notion-quote"],
       [kind |-> "addClass", tag |-> <<"t", "a", "b", "l", "e">>, class |-> "notion-table"],
       [kind |-> "addClass", tag |-> <<"h", "r">>, class |-> "notion-divider"] >>

\* one pass
ClassPass(text, pass) ==
    CASE pass.kind = "addClass" -> addClass(text, pass.tag, pass.class)
      [] pass.kind = "inline" -> addClassInline(text, pass.tag, pass.class)
      [] pass.kind = "items" -> ListItemsOf(text, pass.tag, pass.class)

\* the text after the first n passes: pass n is handed the text pass n - 1 returned
RECURSIVE AfterPasses(_, _)
AfterPasses(text, n) ==
    IF n = 0 THEN text
    ELSE CHOOSE processed \in { ClassPass(t, ClassPasses[n]) : t \in {AfterPasses(text, n - 1)} } :
             TRUE

\* MarkdownRenderer._addNotionClasses
_addNotionClasses(text) == AfterPasses(text, Len(ClassPasses))

(* The HTML the class pass is run on: one tag of LeadTags (tags without   *)
(* and with a class, in upper case, tags whose names begin with the name  *)
(* of another targeted tag, and a code tag inside a pre block) followed by *)
(* a list, its items and the lists nested in them, with and without        *)
(* classes of their own.                                                   *)
OtherClass == <<" ", ClassAttr, "x", Quote>>
LeadTags ==
    { <<"<", "p", ">">>,
      <<"<", "p">> \o OtherClass \o <<">">>,
      <<"<", "p", "r", "e", ">">>,
      <<"<", "B", ">">>,
      <<"<", "b", "l", "o", "c", "k", "q", "u", "o", "t", "e", ">">>,
      <<"<", "c", "o", "d", "e", ">">>,
      <<"<", "p", "r", "e", ">", "<", "c", "o", "d", "e", ">">> }
ListTags == { <<"u", "l">>, <<"o", "l">> }
TagClasses == { <<>>, OtherClass }

\* the lists nested at most n deep
RECURSIVE ListsOf(_)
ListsOf(n) ==
    IF n = 0 THEN {<<>>}
    ELSE {<<>>} \cup
         { <<"<">> \o tag \o listClass \o <<">", "<", "l", "i">> \o itemClass \o <<">", "x">>
               \o inner \o <<"<", "/">> \o tag \o <<">">> :
             tag \in ListTags, listClass \in TagClasses, itemClass \in TagClasses,
             inner \in ListsOf(n - 1) }

NotClassed == [done |-> FALSE]

InitClass ==
    /\ markup \in { lead \o list : lead \in LeadTags, list \in ListsOf(MaxListDepth) }
    /\ classed = NotClassed
    /\ reclassed = NotClassed

\* the pass, run on the HTML
AddClasses ==
    /\ classed' = [done |-> TRUE, value |-> _addNotionClasses(markup)]
    /\ UNCHANGED <<markup, reclassed>>

\* the pass, run once more on what it returned
AddClassesAgain ==
    /\ classed.done
    /\ reclassed' = [done |-> TRUE, value |-> _addNotionClasses(classed.value)]
    /\ UNCHANGED <<markup, classed>>

-----------------------------------------------------------------------------
(* The texts _slugify is run on: every text of at most MaxSlugLen          *)
(* characters over a letter in each case, a digit, the three separators, a *)
(* punctuation mark and an accented capital, and the two texts of the      *)
(* documentation's examples.                                               *)

SlugChars == {"A", "b", "1", " ", "_", "-", "!", "É"}
MyPage == <<"M", "y", " ", "P", "a", "g", "e", "!">>
PaddedAB == <<" ", " ", "A", " ", "-", "-", " ", "B", " ", " ">>
SlugSources ==
    UNION { [1..n -> SlugChars] : n \in 0..MaxSlugLen } \cup {MyPage, PaddedAB}

NotSlugged == [done |-> FALSE]

InitSlug ==
    /\ slugSource \in SlugSources
    /\ slugged = NotSlugged
    /\ reslugged = NotSlugged

\* _slugify, run on the text
Slugify ==
    /\ slugged' = [done |-> TRUE, value |-> _slugify(slugSource)]
    /\ UNCHANGED <<slugSource, reslugged>>

\* _slugify, run once more on what it returned
SlugifyAgain ==
    /\ slugged.done
    /\ reslugged' = [done |-> TRUE, value |-> _slugify(slugged.value)]
    /\ UNCHANGED <<slugSource, slugged>>

-----------------------------------------------------------------------------
(* SpecExport: the exporter over every bounded Session tree, with the base *)
(* URL changed between exports.                                            *)

InitExportSpec == InitExport /\ IdleRepo /\ IdleWiki /\ IdleUrl /\ IdleClass /\ IdleSlug /\ IdleController /\ IdleRequests /\ IdleFlat /\ IdleLifecycle

NextExport ==
    /\ \/ \E u \in BaseUrls : setBaseUrl(u)
       \/ ExportSession
    /\ UNCHANGED <<repoVars, wikiVars, urlVars, classVars, slugVars, controllerVars, requestVars, flatVars, lifecycleVars>>

SpecExport == InitExportSpec /\ [][NextExport]_vars

-----------------------------------------------------------------------------
(* SpecParse: parseSession over every bounded repository, entry document   *)
(* and single unreadable file.                                             *)

InitParseSpec == InitParse /\ IdleExport /\ IdleWiki /\ IdleUrl /\ IdleClass /\ IdleSlug /\ IdleController /\ IdleRequests /\ IdleFlat /\ IdleLifecycle

NextParse ==
    /\ ParseEntry
    /\ UNCHANGED <<exportVars, wikiVars, urlVars, classVars, slugVars, controllerVars, requestVars, flatVars, lifecycleVars>>

SpecParse == InitParseSpec /\ [][NextParse]_vars

-----------------------------------------------------------------------------
(* SpecRoutes: the two route handlers, run in any order on every bounded   *)
(* repository, for every value of the entry-document reference they read.  *)

InitRoutesSpec == InitRoutes /\ IdleWiki /\ IdleUrl /\ IdleClass /\ IdleSlug /\ IdleController /\ IdleRequests /\ IdleFlat /\ IdleLifecycle

NextRoutes ==
    /\ \/ GetGmVault
       \/ \E slug \in RequestSlugs, renderThrows \in BOOLEAN : GetPage(slug, renderThrows)
    /\ UNCHANGED <<wikiVars, urlVars, classVars, slugVars, controllerVars, requestVars, flatVars, lifecycleVars>>

SpecRoutes == InitRoutesSpec /\ [][NextRoutes]_vars

-----------------------------------------------------------------------------
(* SpecLinked: the export requested and the urls of its pages followed.    *)

InitLinkedSpec == InitLinked /\ IdleWiki /\ IdleUrl /\ IdleClass /\ IdleSlug /\ IdleController /\ IdleRequests /\ IdleFlat /\ IdleLifecycle

NextLinked ==
    /\ \/ GetGmVault
       \/ \E f \in PageDocuments : FollowPage(f)
    /\ UNCHANGED <<wikiVars, urlVars, classVars, slugVars, requestVars, flatVars, lifecycleVars>>

SpecLinked == InitLinkedSpec /\ [][NextLinked]_vars

-----------------------------------------------------------------------------
(* SpecWiki: the text rule on every bounded text node, under the base URLs *)
(* the renderer is given.                                                  *)

InitWikiSpec == InitWiki /\ IdleExport /\ IdleRepo /\ IdleUrl /\ IdleClass /\ IdleSlug /\ IdleController /\ IdleRequests /\ IdleFlat /\ IdleLifecycle

NextWiki ==
    /\ \/ \E u \in BaseUrls : setRendererBaseUrl(u)
       \/ RenderText
    /\ UNCHANGED <<exportVars, repoVars, urlVars, classVars, slugVars, controllerVars, requestVars, flatVars, lifecycleVars>>

SpecWiki == InitWikiSpec /\ [][NextWiki]_vars

-----------------------------------------------------------------------------
(* SpecUrl: the URL pass on every bounded pair of elements and base URL.   *)

InitUrlSpec == InitUrl /\ IdleExport /\ IdleRepo /\ IdleWiki /\ IdleClass /\ IdleSlug /\ IdleController /\ IdleRequests /\ IdleFlat /\ IdleLifecycle

NextUrl ==
    /\ \/ ConvertUrls
       \/ ConvertAgain
    /\ UNCHANGED <<exportVars, repoVars, wikiVars, classVars, slugVars, controllerVars, requestVars, flatVars, lifecycleVars>>

SpecUrl == InitUrlSpec /\ [][NextUrl]_vars

-----------------------------------------------------------------------------
(* SpecClass: the class pass, run once and twice on every bounded HTML.    *)

InitClassSpec == InitClass /\ IdleExport /\ IdleRepo /\ IdleWiki /\ IdleUrl /\ IdleSlug /\ IdleController /\ IdleRequests /\ IdleFlat /\ IdleLifecycle

NextClass ==
    /\ \/ AddClasses
       \/ AddClassesAgain
    /\ UNCHANGED <<exportVars, repoVars, wikiVars, urlVars, slugVars, controllerVars, requestVars, flatVars, lifecycleVars>>

SpecClass == InitClassSpec /\ [][NextClass]_vars

-----------------------------------------------------------------------------
(* SpecSlug: _slugify, run once and twice on every bounded text.           *)

InitSlugSpec == InitSlug /\ IdleExport /\ IdleRepo /\ IdleWiki /\ IdleUrl /\ IdleClass /\ IdleController /\ IdleRequests /\ IdleFlat /\ IdleLifecycle

NextSlug ==
    /\ \/ Slugify
       \/ SlugifyAgain
    /\ UNCHANGED <<exportVars, repoVars, wikiVars, urlVars, classVars, controllerVars, requestVars, flatVars, lifecycleVars>>

SpecSlug == InitSlugSpec /\ [][NextSlug]_vars

-----------------------------------------------------------------------------
(* SpecFlat: flat extraction over every bounded document.                  *)

InitFlatSpec == InitFlat /\ IdleExport /\ IdleRepo /\ IdleWiki /\ IdleUrl /\ IdleClass /\ IdleSlug /\ IdleController /\ IdleRequests /\ IdleLifecycle

NextFlat ==
    /\ ExtractFlat
    /\ UNCHANGED <<exportVars, repoVars, wikiVars, urlVars, classVars, slugVars, controllerVars, requestVars, lifecycleVars>>

SpecFlat == InitFlatSpec /\ [][NextFlat]_vars

-----------------------------------------------------------------------------
(* SpecController: the commands of the controller in any order, and the    *)
(* requests the running server dispatches between them.                    *)

InitControllerSpec == InitController /\ IdleWiki /\ IdleUrl /\ IdleClass /\ IdleSlug /\ IdleRequests /\ IdleFlat /\ IdleLifecycle

NextController ==
    /\ \/ \E file \in Range(getMarkdownFiles(vault)) : selectSessionPage(file)
       \/ \E bind \in StartOutcomes, tunnel \in TunnelOutcomes : enableServer(bind, tunnel)
       \/ disableServer
       \/ \E data \in SavedSettings(vault), bind \in StartOutcomes, tunnel \in TunnelOutcomes :
             loadSettings(data, bind, tunnel)
       \/ Dispatch
    /\ UNCHANGED <<wikiVars, urlVars, classVars, slugVars, requestVars, flatVars, lifecycleVars>>

SpecController == InitControllerSpec /\ [][NextController]_vars

-----------------------------------------------------------------------------
(* SpecLifecycle: the commands interleaved at their awaits.                *)

InitLifecycleSpec == InitLifecycle /\ IdleWiki /\ IdleUrl /\ IdleClass /\ IdleSlug /\ IdleRequests /\ IdleFlat

NextLifecycle ==
    /\ \/ \E file \in Range(getMarkdownFiles(vault)) :
             selectSessionPage(file) /\ ~Unloaded /\ UNCHANGED pending
       \/ \E c \in Commands :
             \/ EnableInvoke(c)
             \/ \E bind \in StartOutcomes : EnableStarted(c, bind)
             \/ EnableWaited(c)
             \/ \E tunnel \in TunnelOutcomes : EnableTunnelled(c, tunnel)
             \/ DisableInvoke(c)
             \/ DisableTunnelStopped(c)
             \/ DisableServerStopped(c)
             \/ SettingsSaved(c)
             \/ CleanupInvoke(c)
             \/ CleanupTunnelStopped(c)
             \/ CleanupServerStopped(c)
    /\ UNCHANGED <<wikiVars, urlVars, classVars, slugVars, requestVars, flatVars>>

SpecLifecycle == InitLifecycleSpec /\ [][NextLifecycle]_vars

-----------------------------------------------------------------------------
(* SpecRequests: GET /gm-vault requests in flight together, each resumed   *)
(* read by read in any order, with the entry document selected anew        *)
(* between their steps, on an unchanged repository.                        *)

InitRequestsSpec == InitRequests /\ IdleWiki /\ IdleUrl /\ IdleClass /\ IdleSlug /\ IdleFlat /\ IdleLifecycle

NextRequests ==
    /\ \/ \E file \in RequestEntries(vault) :
             selectSessionPage(file) /\ UNCHANGED requestVars
       \/ \E r \in Requests : Receive(r)
       \/ \E r \in Requests : RootNameRead(r)
       \/ \E r \in Requests : PageRead(r)
    /\ UNCHANGED <<wikiVars, urlVars, classVars, slugVars, flatVars, lifecycleVars>>

SpecRequests == InitRequestsSpec /\ [][NextRequests]_vars

-----------------------------------------------------------------------------
(* Claims on the exporter. *)

RECURSIVE ElidedAt(_, _)
ElidedAt(category, obj) ==
    /\ ("pages" \in DOMAIN obj) <=> (Len(category.pages) > 0)
    /\ ("categories" \in DOMAIN obj) <=> (Len(category.categories) > 0)
    /\ "pages" \in DOMAIN obj => Len(obj.pages) > 0
    /\ "categories" \in DOMAIN obj =>
          /\ Len(obj.categories) = Len(category.categories)
          /\ \A i \in 1..Len(category.categories) :
                ElidedAt(category.categories[i], obj.categories[i])
    /\ (Len(category.pages) = 0 /\ Len(category.categories) = 0) =>
          obj = [name |-> category.name]

\* C1: buildJSON emits for each Category, at every depth, an object whose
\* "pages" key is present iff the category has a page and whose "categories"
\* key is present iff it has a subcategory (a present key never holds an
\* empty array); a childless category serializes to exactly {name}.
C1_Elision ==
    json.built =>
        /\ Len(json.value.categories) = Len(session.categories)
        /\ \A i \in 1..Len(session.categories) :
              ElidedAt(session.categories[i], json.value.categories[i])

\* C1's case: an export of a tree that holds, below the top level, a childless
\* category next to a parent with pages.
C1_Witness ==
    /\ json.built
    /\ \E i \in 1..Len(session.categories) :
          LET c == session.categories[i]
          IN  /\ Len(c.pages) > 0
              /\ Len(c.categories) > 0
              /\ Len(c.categories[1].pages) = 0
              /\ Len(c.categories[1].categories) = 0
              /\ json.value.categories[i].categories[1] = [name |-> c.categories[1].name]

RECURSIVE UrlsAt(_, _, _)
UrlsAt(category, obj, base) ==
    /\ obj.name = category.name
    /\ Len(category.pages) > 0 =>
          /\ "pages" \in DOMAIN obj
          /\ Len(obj.pages) = Len(category.pages)
          /\ \A i \in 1..Len(category.pages) :
                /\ obj.pages[i].name = category.pages[i].name
                /\ obj.pages[i].url = base \o PagesPath \o category.pages[i].slug
    /\ Len(category.categories) > 0 =>
          /\ "categories" \in DOMAIN obj
          /\ Len(obj.categories) = Len(category.categories)
          /\ \A i \in 1..Len(category.categories) :
                UrlsAt(category.categories[i], obj.categories[i], base)

\* C2: after any sequence of setBaseUrl calls, an export of the (unchanged)
\* Session tree carries the tree's names and structure, and every page url is
\* {base}/pages/{slug} for the base URL most recently set before the call.
C2_UrlFromLatestBase ==
    json.built =>
        /\ Len(json.value.categories) = Len(session.categories)
        /\ \A i \in 1..Len(session.categories) :
              UrlsAt(session.categories[i], json.value.categories[i], json.base)

\* C2's case: an export made after the base URL was switched to the tunnel's,
\* of a tree with a page below the top level, the builder since switched back.
C2_Witness ==
    /\ json.built
    /\ json.base = TunnelUrl
    /\ baseUrl = LocalUrl
    /\ \E i \in 1..Len(session.categories) :
          /\ Len(session.categories[i].categories) > 0
          /\ Len(session.categories[i].categories[1].pages) > 0

-----------------------------------------------------------------------------
(* Claims on the parser. *)

\* the pages of a category at every depth
RECURSIVE AllPages(_)
AllPages(category) ==
    Range(category.pages)
    \cup UNION { AllPages(category.categories[i]) : i \in 1..Len(category.categories) }

\* the categories of a category at every depth, itself included
RECURSIVE AllCategories(_)
AllCategories(category) ==
    {category}
    \cup UNION { AllCategories(category.categories[i]) : i \in 1..Len(category.categories) }

SessionPages(s) == UNION { AllPages(s.categories[i]) : i \in 1..Len(s.categories) }
SessionCategories(s) == UNION { AllCategories(s.categories[i]) : i \in 1..Len(s.categories) }

Returned == parsed.done /\ ~parsed.result.threw

\* C3: the tree parseSession returns holds, at no depth, a Page made from the
\* entry document.
C3_EntryExcluded ==
    Returned => \A page \in SessionPages(parsed.result.session) :
                    page.source # currentSessionFile.path

\* C3's case: the scan went through the entry document's folder (the entry
\* document was read there) and kept, deeper, a namesake of the entry document.
C3_Witness ==
    /\ Returned
    /\ currentSessionFile.path = EntryFile(<<>>).path
    /\ currentSessionFile.path \in Range(parsed.result.reads)
    /\ \E page \in SessionPages(parsed.result.session) :
          /\ page.slug = slugify(currentSessionFile.basename)
          /\ page.source # currentSessionFile.path
    /\ Cardinality(SessionPages(parsed.result.session)) >= 2

\* the last component of a path
RECURSIVE NameOfPath(_)
NameOfPath(path) ==
    IF IndexOfAny(path, 1, {"/"}) = 0 THEN path
    ELSE NameOfPath(DropChars(path, IndexOfAny(path, 1, {"/"})))

\* the name of a markdown file without its extension
BasenameOfPath(path) == SubSeq(NameOfPath(path), 1, Len(NameOfPath(path)) - Len(Dot \o Md))

Alphabet ==
    <<".", "a", "b", "c", "d", "e", "f", "g", "h", "i", "j", "k", "l", "m", "n", "o",
      "p", "q", "r", "s", "t", "u", "v", "w", "x", "y", "z">>

Letter(c) == CHOOSE i \in 1..Len(Alphabet) : Alphabet[i] = toLowerCaseChar(c)

\* a comes strictly before b in the dictionary, whatever the case of the letters
RECURSIVE AlphabeticallyBefore(_, _)
AlphabeticallyBefore(a, b) ==
    IF b = <<>> THEN FALSE
    ELSE IF a = <<>> THEN TRUE
    ELSE IF Letter(Head(a)) # Letter(Head(b)) THEN Letter(Head(a)) < Letter(Head(b))
    ELSE AlphabeticallyBefore(Tail(a), Tail(b))

IndexIn(seq, x) == CHOOSE i \in 1..Len(seq) : seq[i] = x

\* C4: in every Category of folder mode the pages are in ascending
\* alphabetical order of their file names and the subcategories in ascending
\* alphabetical order of their folder names, whatever the listing order of the
\* repository; the files of a level are processed before its folders.
C4_Sorted ==
    Returned =>
        \A c \in SessionCategories(parsed.result.session) :
            /\ \A i \in 1..(Len(c.pages) - 1) :
                  AlphabeticallyBefore(NameOfPath(c.pages[i].source),
                                       NameOfPath(c.pages[i + 1].source))
            /\ \A i \in 1..(Len(c.categories) - 1) :
                  AlphabeticallyBefore(c.categories[i].name, c.categories[i + 1].name)
            /\ \A page \in Range(c.pages) :
                  \A i \in 1..Len(c.categories) :
                      \A deeper \in AllPages(c.categories[i]) :
                          IndexIn(parsed.result.reads, page.source)
                              < IndexIn(parsed.result.reads, deeper.source)

\* C4's case: the repository lists a folder first and then two markdown files
\* in descending order, and the tree has the two pages and the subcategory.
C4_Witness ==
    /\ Returned
    /\ currentSessionFile.hasParent
    /\ LET listed == FolderAt(SessionDir).children
           root == parsed.result.session.categories[1]
       IN  /\ Len(root.pages) = 2
           /\ Len(root.categories) = 1
           /\ IsFolder(listed[1])
           /\ \E i, j \in 1..Len(listed) :
                 /\ i < j
                 /\ listed[i].name = NameOfPath(root.pages[2].source)
                 /\ listed[j].name = NameOfPath(root.pages[1].source)

\* C8 as stated: with a single unreadable file parseSession still returns the
\* tree, and the name that would have come from that file is its base name.
C8_ReadFailureTolerated ==
    (parsed.done /\ unreadable # {} /\ currentSessionFile.hasParent) =>
        /\ ~parsed.result.threw
        /\ \A page \in SessionPages(parsed.result.session) :
              page.source \in unreadable => page.name = BasenameOfPath(page.source)
        /\ currentSessionFile.path \in unreadable =>
              parsed.result.session.categories[1].name = currentSessionFile.basename

-----------------------------------------------------------------------------
(* Claims on the route handlers. *)

Handled == "request" \in DOMAIN response

\* C5: GET /gm-vault handled while no entry document is selected is answered
\* with status 400 and a JSON body with an "error" field, and neither the
\* parser nor the exporter runs.
C5_NotSelected ==
    (Handled /\ response.request.route = "gm-vault" /\ currentSessionFile = NULL) =>
        /\ response.sent
        /\ response.status = 400
        /\ response.type = "application/json"
        /\ "error" \in DOMAIN response.body
        /\ parsed = NotParsed
        /\ json = NoJson

\* C5's case: the request was handled with no entry document selected.
C5_Witness ==
    /\ Handled
    /\ response.request.route = "gm-vault"
    /\ currentSessionFile = NULL
    /\ response.status = 400

\* the documents the claim's rule accepts for a slug
MatchingDocuments(slug) ==
    { f \in Range(getMarkdownFiles(vault)) :
        \/ slugify(f.basename) = slug
        \/ toLowerCase(f.basename) = toLowerCase(slug) }

\* C6 as stated: GET /pages/:slug resolves to a document iff some markdown
\* document's slugified base name is the slug or its base name is the slug
\* compared case-insensitively; no match is a 404 with a JSON error, a match is
\* the document rendered as HTML (when nothing fails).
C6_ResolvesIffMatch ==
    (Handled /\ response.request.route = "pages" /\ response.raised = "none") =>
        /\ MatchingDocuments(response.request.slug) = {} =>
              /\ response.status = 404
              /\ response.type = "application/json"
              /\ "error" \in DOMAIN response.body
        /\ MatchingDocuments(response.request.slug) # {} =>
              /\ response.status = 200
              /\ response.type = "text/html"
              /\ response.source \in
                    { f.path : f \in MatchingDocuments(response.request.slug) }

\* C7: an exception raised while a route handler runs never escapes it: the
\* request is answered with status 500 and a JSON body with an "error" field.
C7_ExceptionsAnswered ==
    (Handled /\ response.raised # "none") =>
        /\ response.sent
        /\ response.status = 500
        /\ response.type = "application/json"
        /\ "error" \in DOMAIN response.body

\* C7's case: a GET /pages/:slug whose document could not be read.
C7_Witness ==
    /\ Handled
    /\ response.request.route = "pages"
    /\ response.raised = "read"
    /\ response.status = 500

-----------------------------------------------------------------------------
(* Claims on the cross-reference rule. *)

\* the anchors of a rendering, in order: href and inner text
RECURSIVE AnchorsFrom(_, _)
AnchorsFrom(text, p) ==
    IF p > Len(text) THEN <<>>
    ELSE IF startsWith(DropChars(text, p - 1), AnchorOpen)
         THEN LET h == p + Len(AnchorOpen)
                  q == IndexOfAny(text, h, {"\""})
                  c == IndexOfAny(text, q + 2, {"<"})
              IN  <<[href |-> SubSeq(text, h, q - 1), inner |-> SubSeq(text, q + 2, c - 1)]>>
                      \o AnchorsFrom(text, c + Len(AnchorClose))
         ELSE AnchorsFrom(text, p + 1)

RECURSIVE SelectLinks(_)
SelectLinks(pieces) ==
    IF pieces = <<>> THEN <<>>
    ELSE IF Head(pieces).kind = "link"
         THEN <<Head(pieces)>> \o SelectLinks(Tail(pieces))
         ELSE SelectLinks(Tail(pieces))

HrefOf(link, base) ==
    (IF base # NoBase THEN base ELSE <<>>) \o PagesPath \o _slugify(link.target)

\* C9 as stated: each cross-reference token [[T]] or [[T|D]] of a text node is
\* rendered as one anchor whose href is {baseUrl}/pages/{slugify(T)} and whose
\* visible text is D, or T when no alias is given.
C9_AnchorPerToken ==
    rendered.done =>
        AnchorsFrom(rendered.value, 1) =
            [i \in 1..Len(SelectLinks(parts)) |->
                LET link == SelectLinks(parts)[i]
                IN  [href |-> HrefOf(link, rendered.base),
                     inner |-> _escapeHtml(IF link.aliased THEN link.alias ELSE link.target)]]

\* C9, amended: each cross-reference token is rendered as one anchor whose href
\* is {baseUrl}/pages/{slugify(T)} (no base: /pages/{slugify(T)}), whatever the
\* alias, and whose visible text is the alias up to its first '|' with the
\* surrounding whitespace removed, or T with the surrounding whitespace removed
\* when no alias is given.
C9_AnchorPerTokenTrimmed ==
    rendered.done =>
        AnchorsFrom(rendered.value, 1) =
            [i \in 1..Len(SelectLinks(parts)) |->
                LET link == SelectLinks(parts)[i]
                IN  [href |-> HrefOf(link, rendered.base),
                     inner |-> _escapeHtml(trim(IF link.aliased
                                                THEN splitOn(link.alias, Pipe)[1]
                                                ELSE link.target))]]

\* C9's case: a text node of two tokens for one target, one with a padded alias
\* and one without alias, rendered with a base URL.
C9_Witness ==
    /\ rendered.done
    /\ rendered.base = TunnelUrl
    /\ Len(parts) = 2
    /\ parts[1].kind = "link" /\ parts[1].aliased /\ parts[1].alias = <<" ", "D", " ">>
    /\ parts[2].kind = "link" /\ ~parts[2].aliased /\ parts[2].target = parts[1].target

-----------------------------------------------------------------------------
(* Claims on the URL pass. *)

\* the values of the href and src attributes of a text, in order
RECURSIVE UrlValuesFrom(_, _)
UrlValuesFrom(text, p) ==
    IF p > Len(text) THEN <<>>
    ELSE LET atHref == MatchesAt(text, p, <<"h", "r", "e", "f", "=", "\"">>)
             atSrc == MatchesAt(text, p, <<"s", "r", "c", "=", "\"">>)
             v == IF atHref THEN p + 6 ELSE p + 5
             e == IndexOfAny(text, v, {"\""})
         IN  IF atHref \/ atSrc
             THEN <<SubSeq(text, v, e - 1)>> \o UrlValuesFrom(text, e + 1)
             ELSE UrlValuesFrom(text, p + 1)

\* a value that begins with a single '/'
RootRelative(url) ==
    startsWith(url, <<"/">>) /\ ~startsWith(url, <<"/", "/">>)

\* C10 as stated: the pass prepends the base URL, one trailing slash removed,
\* to every href and src that begins with a single '/', and leaves every other
\* href and src as it was.
C10_Absolutized ==
    converted.done =>
        UrlValuesFrom(converted.value, 1) =
            [i \in 1..Len(UrlValuesFrom(html, 1)) |->
                IF RootRelative(UrlValuesFrom(html, 1)[i])
                THEN StripEndSlash(urlBase) \o UrlValuesFrom(html, 1)[i]
                ELSE UrlValuesFrom(html, 1)[i]]

\* C11 as stated: the URL pass run on its own output returns it unchanged, and
\* its output is the same for a base URL with and without a trailing slash.
C11_Idempotent ==
    /\ reconverted.done => reconverted.value = converted.value
    /\ converted.done =>
          converted.value = _convertRelativeUrlsToAbsolute(html, StripEndSlash(urlBase))

-----------------------------------------------------------------------------
(* Claims on the class pass. *)

-----------------------------------------------------------------------------
(* Claims on escaping. *)

\* the text between the brackets of a cross-reference token
LinkContentOf(piece) ==
    piece.target \o (IF piece.aliased THEN <<Pipe>> \o piece.alias ELSE <<>>)

\* C13: a rendered text node holds, in order, each piece of text around its
\* cross-reference tokens with the five characters & < > " ' replaced by their
\* entities, and the anchor of each token with its visible text escaped in
\* the same way.
C13_TextEscaped ==
    rendered.done =>
        rendered.value =
            Flatten([i \in 1..Len(parts) |->
                        IF parts[i].kind = "text"
                        THEN _escapeHtml(parts[i].text)
                        ELSE wikiLinkAnchor(LinkContentOf(parts[i]), rendered.base)])

-----------------------------------------------------------------------------
(* Claims on _slugify. *)

\* C14: _slugify is idempotent: run on its own output, it returns that output.
C14_SlugIdempotent ==
    reslugged.done => reslugged.value = slugged.value

\* C14's case: a text with capitals, punctuation and separators on both
\* sides, whose slug differs from it, slugged twice.
C14_Witness ==
    /\ reslugged.done
    /\ slugSource = <<"_", "A", "!">>
    /\ slugged.value = <<"a">>

LowerAlphanumeric == (LowerChars \cup DigitChars)

\* the characters of a text that are letters or digits (lower-cased) or
\* separators, in order
RECURSIVE KeptOf(_)
KeptOf(text) ==
    IF text = <<>> THEN <<>>
    ELSE LET c == toLowerCaseChar(Head(text))
         IN  (IF c \in LowerAlphanumeric \/ c \in {" ", "_", "-"} THEN <<c>> ELSE <<>>)
                 \o KeptOf(Tail(text))

\* the maximal runs of letters and digits of a text, in order; word is the
\* run being read
RECURSIVE WordsOf(_, _)
WordsOf(text, word) ==
    IF text = <<>> THEN (IF word = <<>> THEN <<>> ELSE <<word>>)
    ELSE IF Head(text) \in LowerAlphanumeric
         THEN WordsOf(Tail(text), Append(word, Head(text)))
         ELSE (IF word = <<>> THEN <<>> ELSE <<word>>) \o WordsOf(Tail(text), <<>>)

RECURSIVE JoinWithHyphen(_)
JoinWithHyphen(words) ==
    IF words = <<>> THEN <<>>
    ELSE IF Len(words) = 1 THEN words[1]
    ELSE words[1] \o <<"-">> \o JoinWithHyphen(Tail(words))

\* C15: the slug of a text is its lower-cased letters and digits, every other
\* character but whitespace, underscore and hyphen removed, with one hyphen
\* for each run of whitespace, underscores and hyphens between two of them:
\* only lowercase alphanumerics and single hyphens, no hyphen first or last;
\* "My Page!" gives "my-page" and "  A -- B  " gives "a-b".
C15_SlugShape ==
    slugged.done =>
        LET result == slugged.value
        IN  /\ result = JoinWithHyphen(WordsOf(KeptOf(slugSource), <<>>))
            /\ \A i \in 1..Len(result) : result[i] \in LowerAlphanumeric \cup {"-"}
            /\ \A i \in 1..(Len(result) - 1) : ~(result[i] = "-" /\ result[i + 1] = "-")
            /\ result # <<>> => result[1] # "-" /\ result[Len(result)] # "-"
            /\ slugSource = MyPage => result = <<"m", "y", "-", "p", "a", "g", "e">>
            /\ slugSource = PaddedAB => result = <<"a", "-", "b">>

\* C15's case: the second example of the documentation, slugged.
C15_Witness ==
    /\ slugged.done
    /\ slugSource = PaddedAB
    /\ slugged.value = <<"a", "-", "b">>

-----------------------------------------------------------------------------
(* Claims on childless categories. *)

Childless(category) == Len(category.pages) = 0 /\ Len(category.categories) = 0

\* the output in which a childless category has no entry in its parent's
\* "categories" array
RECURSIVE WithoutChildless(_, _)
WithoutChildless(category, base) ==
    LET kept == SelectWithChildren(category.categories)
    IN  [key \in {"name"} \cup (IF Len(category.pages) > 0 THEN {"pages"} ELSE {})
                          \cup (IF Len(kept) > 0 THEN {"categories"} ELSE {}) |->
            CASE key = "name" -> category.name
              [] key = "pages" -> [i \in 1..Len(category.pages) |->
                                       _buildPageJSON(category.pages[i], base)]
              [] key = "categories" -> [i \in 1..Len(kept) |-> WithoutChildless(kept[i], base)]]

\* C20 as stated: a Category with zero pages and zero subcategories has no
\* entry in the "categories" array of its parent in the exporter's output.
C20_ChildlessOmitted ==
    json.built =>
        json.value =
            [categories |->
                [i \in 1..Len(SelectWithChildren(session.categories)) |->
                    WithoutChildless(SelectWithChildren(session.categories)[i], json.base)]]

\* the array written for the subcategories holds one entry per subcategory,
\* in order, and the entry of a childless one is exactly {name}
RECURSIVE EntryPerCategory(_, _)
EntryPerCategory(categories, objs) ==
    /\ Len(objs) = Len(categories)
    /\ \A i \in 1..Len(categories) :
          /\ objs[i].name = categories[i].name
          /\ Childless(categories[i]) => objs[i] = [name |-> categories[i].name]
          /\ Len(categories[i].categories) > 0 =>
                /\ "categories" \in DOMAIN objs[i]
                /\ EntryPerCategory(categories[i].categories, objs[i].categories)

\* C20, amended: a Category with zero pages and zero subcategories is kept in
\* the exporter's output: its parent's "categories" array holds an entry for
\* it, in its place among the subcategories, that is exactly {name}.
C20_ChildlessKept ==
    json.built => EntryPerCategory(session.categories, json.value.categories)

\* C20's case: an export of a category whose first subcategory is childless
\* and whose second one has a page.
C20_Witness ==
    /\ json.built
    /\ \E i \in 1..Len(session.categories) :
          LET c == session.categories[i]
          IN  /\ Len(c.categories) = 2
              /\ Childless(c.categories[1])
              /\ Len(c.categories[2].pages) > 0
              /\ Len(json.value.categories[i].categories) = 2

-----------------------------------------------------------------------------
(* Claims on the controller. *)

\* a step that handles a request
RequestHandled ==
    \/ GetGmVault
    \/ \E slug \in ControllerSlugs, renderThrows \in BOOLEAN : GetPage(slug, renderThrows)

\* C16: a step that handles a request, GET /gm-vault or GET /pages/:slug,
\* answered with success or with an error, between any commands, leaves the
\* server's running flag, the selected entry document and the repository's
\* documents as they were.
C16_HandlersReadOnly ==
    [][RequestHandled =>
          /\ serverRunning' = serverRunning
          /\ listeners' = listeners
          /\ currentSessionFile' = currentSessionFile
          /\ vault' = vault
          /\ unreadable' = unreadable]_vars

\* C16's case: the running server, with an entry document selected, has
\* answered a request for a page with an error.
C16_Witness ==
    /\ serverRunning
    /\ currentSessionFile # NULL
    /\ response.sent
    /\ response.request.route = "pages"
    /\ response.status = 500

\* a step of the enable command
Enabling == \E bind \in StartOutcomes, tunnel \in TunnelOutcomes : enableServer(bind, tunnel)

C19_FailedEnableUnchanged ==
    [][(Enabling /\ notice' = "startError") =>
          /\ serverRunning' = serverRunning
          /\ listeners' = listeners
          /\ tunnelActive' = tunnelActive
          /\ tunnelUrl' = tunnelUrl
          /\ publicUrl' = publicUrl
          /\ baseUrl' = baseUrl
          /\ settings' = settings]_vars

-----------------------------------------------------------------------------
(* Claims on requests in flight together. *)

\* the response of a GET /gm-vault request handled alone, for the entry
\* document it finds selected
AloneResponse(entry) ==
    IF entry = NULL
    THEN sendJSON([error |-> "No hay pagina de sesion seleccionada"], 400)
    ELSE IF parseSession(entry).threw
    THEN sendJSON([error |-> "Error al generar JSON"], 500)
    ELSE sendJSON(buildJSON(parseSession(entry).session, baseUrl), 200)

\* C17: whatever the order in which the handlers of the requests in flight
\* resume after their reads, and whatever is selected meanwhile, the
\* response of each request is the one a request handled alone gives for the
\* entry document it started with: the pages and categories of its own scan,
\* and none of another's.
C17_RequestsIsolated ==
    \A r \in Requests :
        requests[r].pc = "done" => requests[r].response = AloneResponse(requests[r].entry)

\* C17's case: two requests for different entry documents, each resumed
\* while the other was in flight, both answered with a tree.
C17_Witness ==
    /\ \A r \in {1, 2} :
          /\ requests[r].pc = "done"
          /\ requests[r].overlapped
          /\ requests[r].response.status = 200
    /\ requests[1].entry.path # requests[2].entry.path
    /\ requests[1].response # requests[2].response

-----------------------------------------------------------------------------
(* C21: flat extraction de-duplicates the cross-references of a document   *)
(* by slug.  Each distinct slugify(target) yields exactly one Page, the    *)
(* pages are in the order of the first occurrences and carry the display   *)
(* text of the first occurrence, they are all in one category named        *)
(* "Pages", and nothing is emitted for a text without cross-references.    *)

\* the cross-references the document was written from, in order
RECURSIVE SelectTokens(_)
SelectTokens(pieces) ==
    IF pieces = <<>> THEN <<>>
    ELSE (IF Head(pieces).kind = "link" THEN <<Head(pieces)>> ELSE <<>>)
            \o SelectTokens(Tail(pieces))

\* the index of the first cross-reference with the slug
FirstOccurrence(tokens, slug) ==
    Minimum({ i \in 1..Len(tokens) : slugify(tokens[i].target) = slug })

DisplayOf(token) == IF token.aliased THEN token.alias ELSE token.target

C21_FlatDeduplicated ==
    extracted.done =>
        LET tokens == SelectTokens(fragments)
            slugs == { slugify(tokens[i].target) : i \in 1..Len(tokens) }
        IN  IF tokens = <<>> THEN extracted.value = <<>>
            ELSE /\ Len(extracted.value) = 1
                 /\ LET category == extracted.value[1]
                         pages == category.pages
                    IN  /\ category.name = PagesName
                        /\ category.categories = <<>>
                        /\ Len(pages) = Cardinality(slugs)
                        /\ \A slug \in slugs :
                              Cardinality({ k \in 1..Len(pages) : pages[k].slug = slug }) = 1
                        /\ \A k \in 1..Len(pages) :
                              /\ pages[k].slug \in slugs
                              /\ pages[k].name =
                                    DisplayOf(tokens[FirstOccurrence(tokens, pages[k].slug)])
                        /\ \A k, l \in 1..Len(pages) :
                              k < l => FirstOccurrence(tokens, pages[k].slug)
                                          < FirstOccurrence(tokens, pages[l].slug)

\* the same slug from two different targets, the second with another display text
C21_Witness ==
    /\ extracted.done
    /\ Len(fragments) = 3
    /\ fragments[1] = [kind |-> "link", target |-> <<"A">>, aliased |-> TRUE, alias |-> <<"D">>]
    /\ fragments[2] = [kind |-> "link", target |-> <<"B">>, aliased |-> FALSE]
    /\ fragments[3] = [kind |-> "link", target |-> <<"a", "!">>, aliased |-> TRUE, alias |-> <<"E">>]
    /\ Len(extracted.value[1].pages) = 2

-----------------------------------------------------------------------------
(* C22: with enableServer, disableServer and cleanup interleaved at their  *)
(* awaits, whenever no command is in progress the tunnel is active only if *)
(* the local server is running.                                            *)

NoneInProgress == \A c \in Commands : pending[c].pc \in {"idle", "done"}

C22_TunnelOnlyWhileRunning ==
    NoneInProgress => (tunnelActive => serverRunning)

-----------------------------------------------------------------------------
(* C23: in every state the controller reaches by loading the settings,     *)
(* selecting an entry document, enabling and disabling, a running server   *)
(* has an entry document selected; so GET /gm-vault, which only a running  *)
(* server answers, is never answered 400.                                  *)

C23_RunningHasEntry ==
    /\ serverRunning => currentSessionFile # NULL
    /\ (response # NoResponse /\ response.request = GmVaultRequest) => response.status # 400

\* the settings of an enabled server were loaded, the server was started
\* again for the restored document and has answered GET /gm-vault
C23_Witness ==
    /\ serverRunning
    /\ command.name = "loadSettings"
    /\ currentSessionFile # NULL
    /\ response # NoResponse
    /\ response.request = GmVaultRequest
    /\ response.status = 200

-----------------------------------------------------------------------------
(* C24: the export and the page lookup round-trip.  For every page of a    *)
(* GET /gm-vault response, the request of its url is answered 200 with the *)
(* rendering of the document the page was derived from: never 404, never   *)
(* another document, also when two base names have the same slug or a base *)
(* name has the empty slug.                                                *)

C24_RoundTrip ==
    [][\A f \in PageDocuments :
          FollowPage(f) => (response'.status = 200 /\ response'.source = f.path)]_vars

-----------------------------------------------------------------------------
(* C25: whenever a running server answers GET /gm-vault, the base of every *)
(* page url of the response is an address that serves the pages at that    *)
(* moment: the public URL of the active tunnel, or http://localhost:3000   *)
(* when no tunnel is active; never the URL of a tunnel stopped since.      *)

ServingAddress == IF tunnelActive THEN tunnelUrl ELSE LocalUrl

C25_BaseServing ==
    [][(serverRunning /\ GetGmVault /\ response'.status = 200) =>
          \A i \in 1..Len(parsed'.result.session.categories) :
              UrlsAt(parsed'.result.session.categories[i], response'.body.categories[i],
                     ServingAddress)]_vars

-----------------------------------------------------------------------------
(* C26: in folder mode the name of a page is the text of the first         *)
(* top-level heading line of its file, trimmed, with every cross-reference *)
(* token reduced to its display portion (the Display of                    *)
(* [[target|Display]], the target of [[target]]), or the base name of a    *)
(* file without such a heading; its slug is slugify(base name).            *)

\* the text with every token reduced to its display portion
RECURSIVE ReducedToDisplay(_, _)
ReducedToDisplay(text, i) ==
    IF i > Len(text) THEN <<>>
    ELSE LET m == FlatTokenAt(text, i)
         IN  IF m.matched THEN m.display \o ReducedToDisplay(text, m.end + 1)
             ELSE <<text[i]>> \o ReducedToDisplay(text, i + 1)

DisplayName(file) ==
    LET h == IF file.path \in unreadable THEN [matched |-> FALSE]
             ELSE FirstH1(split(file.text))
    IN  IF h.matched THEN ReducedToDisplay(trim(h.title), 1) ELSE file.basename

C26_NameFromHeading ==
    Returned =>
        \A page \in SessionPages(parsed.result.session) :
            /\ page.name = DisplayName(FileByPath(page.source))
            /\ page.slug = slugify(FileByPath(page.source).basename)

-----------------------------------------------------------------------------
(* C27: parseSession mirrors the folder hierarchy.  The session has one    *)
(* root category, named by the entry document's first top-level heading or *)
(* else its base name, for the entry document's parent folder, and no      *)
(* category when there is no parent folder; below it every sub-folder at   *)
(* every depth is exactly one Category named after the folder, attached    *)
(* also when it is empty; every markdown file other than the entry         *)
(* document is exactly one Page with empty blockTypes in the category of   *)
(* its folder; other children produce nothing.                             *)

ChildrenOf(folder) == Range(folder.children)

MarkdownIn(folder) ==
    { c \in ChildrenOf(folder) : ~IsFolder(c) /\ c.extension = Md
                                  /\ c.path # currentSessionFile.path }

FoldersIn(folder) == { c \in ChildrenOf(folder) : IsFolder(c) }

\* the category holds the folder's content and nothing else, at every depth
RECURSIVE Mirrors(_, _)
Mirrors(category, folder) ==
    /\ Len(category.pages) = Cardinality(MarkdownIn(folder))
    /\ \A f \in MarkdownIn(folder) :
          Cardinality({ i \in 1..Len(category.pages) : category.pages[i].source = f.path }) = 1
    /\ \A i \in 1..Len(category.pages) : category.pages[i].blockTypes = <<>>
    /\ Len(category.categories) = Cardinality(FoldersIn(folder))
    /\ \A sub \in FoldersIn(folder) :
          LET named == { i \in 1..Len(category.categories) :
                           category.categories[i].name = sub.name }
          IN  /\ Cardinality(named) = 1
              /\ \A i \in named : Mirrors(category.categories[i], sub)

HeadingOrBasename(file) ==
    LET h == FirstH1(split(file.text))
    IN  IF h.matched THEN trim(h.title) ELSE file.basename

C27_MirrorsFolders ==
    Returned =>
        LET categories == parsed.result.session.categories
        IN  IF ~currentSessionFile.hasParent THEN categories = <<>>
            ELSE /\ Len(categories) = 1
                 /\ categories[1].name = HeadingOrBasename(currentSessionFile)
                 /\ Mirrors(categories[1], FolderAt(currentSessionFile.parent))

\* the entry document's folder holds a file that is not markdown, an empty
\* folder and another markdown file; the root category has the page and the
\* empty category
C27_Witness ==
    /\ Returned
    /\ currentSessionFile.path = EntryFile(<<>>).path
    /\ currentSessionFile.hasParent
    /\ \E c \in ChildrenOf(FolderAt(SessionDir)) : ~IsFolder(c) /\ c.extension = Png
    /\ LET root == parsed.result.session.categories[1]
       IN  /\ Len(root.pages) = 1
           /\ Len(root.categories) = 1
           /\ root.categories[1] = Category(root.categories[1].name)

-----------------------------------------------------------------------------
(* C28: after the class pass every list item carries the item class of the *)
(* list that directly contains it, notion-bulleted-list-item in a bulleted *)
(* list and notion-numbered-list-item in a numbered list, also in lists    *)
(* nested in one another, and an item outside any list carries neither.    *)

Bulleted == <<"u", "l">>
Numbered == <<"o", "l">>

\* the list items of the HTML from index p on: the attributes of each and the
\* list that directly contains it, open being the lists open at p (innermost
\* last)
RECURSIVE ItemsFrom(_, _, _)
ItemsFrom(text, p, open) ==
    LET n == IndexOfAny(text, p, {"<"})
        g == IF n = 0 THEN 0 ELSE IndexOfAny(text, n, {">"})
    IN  IF n = 0 \/ g = 0 THEN {}
        ELSE IF MatchesAt(text, n, <<"<", "l", "i">>)
        THEN {[at |-> n,
               attrs |-> SubSeq(text, n + 3, g - 1),
               list |-> IF open = <<>> THEN <<>> ELSE open[Len(open)]]}
                 \cup ItemsFrom(text, g + 1, open)
        ELSE IF \E tag \in ListTags : MatchesAt(text, n, <<"<">> \o tag)
        THEN ItemsFrom(text, g + 1, Append(open, SubSeq(text, n + 1, n + 2)))
        ELSE IF \E tag \in ListTags : MatchesAt(text, n, <<"<", "/">> \o tag)
        THEN ItemsFrom(text, g + 1,
                       IF open = <<>> THEN <<>> ELSE SubSeq(open, 1, Len(open) - 1))
        ELSE ItemsFrom(text, g + 1, open)

CarriesItemClass(item, listClass) == includes(item.attrs, ItemClassAttr(listClass))

C28_ItemsClassedByList ==
    classed.done =>
        \A item \in ItemsFrom(classed.value, 1, <<>>) :
            /\ CarriesItemClass(item, "notion-bulleted-list") <=> item.list = Bulleted
            /\ CarriesItemClass(item, "notion-numbered-list") <=> item.list = Numbered

-----------------------------------------------------------------------------
(* C29: the class pass gives each tag only the class designated for its    *)
(* own tag name.  notion-text-code is added only to code tags that are not *)
(* inside a pre block, pre tags get notion-code, and a class meant for one *)
(* tag (notion-paragraph for p, notion-text-bold for b) is never added to  *)
(* a tag whose name begins with the same letters (pre, blockquote).        *)

Pre == <<"p", "r", "e">>
Code == <<"c", "o", "d", "e">>

NotionClasses == { ClassPasses[i].class : i \in 1..Len(ClassPasses) }

\* the opening tags of the HTML from index p on: the name of each, the classes
\* of the pass it carries and whether it is inside a pre block
RECURSIVE TagsFrom(_, _, _)
TagsFrom(text, p, inPre) ==
    LET n == IndexOfAny(text, p, {"<"})
        g == IF n = 0 THEN 0 ELSE IndexOfAny(text, n, {">"})
        e == IF n = 0 THEN 0 ELSE IndexOfAny(text, n, {" ", ">"})
        name == toLowerCase(SubSeq(text, n + 1, e - 1))
    IN  IF n = 0 \/ g = 0 THEN {}
        ELSE IF name = <<"/">> \o Pre THEN TagsFrom(text, g + 1, FALSE)
        ELSE IF name # <<>> /\ name[1] = "/" THEN TagsFrom(text, g + 1, inPre)
        ELSE {[at |-> n,
               name |-> name,
               classes |-> { text[k] : k \in n..g } \cap NotionClasses,
               inPre |-> inPre]}
                 \cup TagsFrom(text, g + 1, inPre \/ name = Pre)

\* the classes designated for a tag
Designated(tag) ==
    IF tag.name = <<"l", "i">> THEN {"notion-bulleted-list", "notion-numbered-list"}
    ELSE IF tag.name = Code /\ tag.inPre THEN {}
    ELSE { ClassPasses[i].class : i \in { k \in 1..Len(ClassPasses) : ClassPasses[k].tag = tag.name } }

C29_OwnClassOnly ==
    classed.done =>
        \A tag \in TagsFrom(classed.value, 1, FALSE) :
            /\ tag.classes \subseteq Designated(tag)
            /\ tag.name = Pre => "notion-code" \in tag.classes
            /\ (tag.name = Code /\ ~tag.inPre) => "notion-text-code" \in tag.classes

=============================================================================
